---- MODULE Spec2Model ----
(***************************************************************************)
(* A model of the PocketBase MCP server of src/src/index.ts: the tool      *)
(* dispatcher, migrate_collection (shadow collection, copy with per-field  *)
(* transforms, delete, rename) and generate_pb_schema.                     *)
(*                                                                         *)
(* The PocketBase store is an external service.  It is modelled as a map   *)
(* from collection names to collections; every call to it either succeeds  *)
(* (only when the store's own rules allow it) or fails, and a failed call  *)
(* changes nothing in the store.                                           *)
(***************************************************************************)
EXTENDS Integers, Sequences, FiniteSets, TLC

(***************************************************************************)
(* Bounds of the model.                                                    *)
(***************************************************************************)
MaxClock == 2        \* Date.now() ranges over 1..MaxClock
MaxRecs == 2         \* records held by the source collection
MaxTransforms == 2   \* entries of args.dataTransforms
MaxMembers == 2      \* members of an interface block given to generate_pb_schema
NumSlots == 2        \* handler invocations that can be in flight together
MaxFields == 2       \* fields of a collection given to generate_typescript_interfaces
MaxSample == 6       \* records of the collection given to analyze_collection_data
MaxId == 5           \* the last id the store gives to a collection in a session

Slots == 1..NumSlots

(***************************************************************************)
(* JavaScript values.  An absent argument / absent key is Undefined; the   *)
(* store's default for a rule that was not supplied is Null.  Field values *)
(* of records are tagged: a number, a string, NaN or undefined.            *)
(***************************************************************************)
Undefined == "<undefined>"
Null == "<null>"

Num(n) == <<"num", n>>
Str(s) == <<"str", s>>
NaN == <<"nan">>
Undef == <<"undefined">>

RuleNames == {"listRule", "viewRule", "createRule", "updateRule", "deleteRule"}
(***************************************************************************)
(* Transform expressions a caller can put in args.dataTransforms, and what *)
(* new Function("oldValue", `return ${transform}`)(v) does for each:       *)
(*   "oldValue + 1"          number -> number + 1, undefined -> NaN,       *)
(*                           string -> string with "1" appended            *)
(*   "oldValue.valueOf()"    TypeError when oldValue is undefined,         *)
(*                           the value itself otherwise                    *)
(*   "missingFn(oldValue)"   ReferenceError at evaluation, for every value *)
(*   "oldValue +"            SyntaxError when the function is compiled     *)
(***************************************************************************)
EvalTransform(transform, oldValue) ==
  LET Threw == [ok |-> FALSE, val |-> Undef]
      Returned(v) == [ok |-> TRUE, val |-> v]
  IN
  CASE transform = "oldValue + 1" ->
         IF oldValue[1] = "num" THEN Returned(Num(oldValue[2] + 1))
         ELSE IF oldValue[1] = "str" THEN Returned(Str(oldValue[2] \o "1"))
         ELSE Returned(NaN)
    [] transform = "oldValue.valueOf()" ->
         IF oldValue = Undef THEN Threw ELSE Returned(oldValue)
    [] transform = "missingFn(oldValue)" -> Threw
    [] OTHER -> Threw

(***************************************************************************)
(* Records.  A record is a function from its keys to values.  The store    *)
(* keeps the data keys and the id; a record read from the store also       *)
(* carries the system key collectionName, which the store sets itself and  *)
(* ignores in the payload of a create.                                     *)
(***************************************************************************)
Get(record, key) == IF key \in DOMAIN record THEN record[key] ELSE Undef

Put(record, key, value) ==
  [k \in DOMAIN record \cup {key} |-> IF k = key THEN value ELSE record[k]]

StoreRead(record, collectionName) == Put(record, "collectionName", Str(collectionName))

StoreWrite(payload) ==
  LET SystemKeys == {"collectionName"}
  IN  [k \in DOMAIN payload \ SystemKeys |-> payload[k]]

(***************************************************************************)
(* migrateCollection, lines 1576-1594: the per-record transform.           *)
(* dataTransforms is [given, entries]: given is FALSE when the argument    *)
(* is absent, entries is Object.entries(args.dataTransforms), a sequence   *)
(* of <<field, transform>> pairs in insertion order.                       *)
(***************************************************************************)
TransformStepOverwriteOnThrow(record, newRecord, entry) ==
  LET r == EvalTransform(entry[2], Get(record, entry[1]))
  IN  Put(newRecord, entry[1], r.val)

\* One iteration of the for loop: try { newRecord[field] = f(record[field]) } catch {}
TransformStep(record, newRecord, entry) ==
  LET r == EvalTransform(entry[2], Get(record, entry[1]))
  IN  IF r.ok THEN Put(newRecord, entry[1], r.val) ELSE newRecord

RECURSIVE TransformLoopOneTry(_, _, _)
TransformLoopOneTry(record, newRecord, entries) ==
  IF entries = <<>> THEN newRecord
  ELSE IF ~EvalTransform(Head(entries)[2], Get(record, Head(entries)[1])).ok THEN newRecord
  ELSE TransformLoopOneTry(record, TransformStep(record, newRecord, Head(entries)),
                           Tail(entries))

\* for (const [field, transform] of Object.entries(args.dataTransforms)) { ... }
RECURSIVE TransformLoop(_, _, _)
TransformLoop(record, newRecord, entries) ==
  IF entries = <<>> THEN newRecord
  ELSE TransformLoop(record, TransformStep(record, newRecord, Head(entries)), Tail(entries))

TransformRecordFromEmpty(record, dataTransforms) ==
  IF dataTransforms.given
  THEN TransformLoop(record, [k \in {"id"} |-> record.id], dataTransforms.entries)
  ELSE record

TransformRecord(record, dataTransforms) ==
  IF dataTransforms.given
  THEN TransformLoop(record, record, dataTransforms.entries)
  ELSE record

TransformAllSkipsThrown(oldRecords, dataTransforms) ==
  LET Returns(record) ==
        \A m \in 1..Len(dataTransforms.entries) :
          EvalTransform(dataTransforms.entries[m][2],
                        Get(record, dataTransforms.entries[m][1])).ok
      kept == IF dataTransforms.given THEN SelectSeq(oldRecords, Returns) ELSE oldRecords
  IN  [n \in 1..Len(kept) |-> TransformRecord(kept[n], dataTransforms)]

TransformAll(oldRecords, dataTransforms) ==
  [n \in 1..Len(oldRecords) |-> TransformRecord(oldRecords[n], dataTransforms)]

(***************************************************************************)
(* migrateCollection, lines 1547-1565: the shadow name and configuration.  *)
(***************************************************************************)
TempName(collection, timestamp) == collection \o "_migration_" \o ToString(timestamp)

WithRuleIfTruthy(config, args, rule) ==
  IF args[rule] \notin {Undefined, ""}
  THEN [config EXCEPT !.rules = (rule :> args[rule]) @@ @]
  ELSE config

\* if (args.<rule> !== undefined) collectionConfig.<rule> = args.<rule>
WithRule(config, args, rule) ==
  IF args[rule] # Undefined
  THEN [config EXCEPT !.rules = (rule :> args[rule]) @@ @]
  ELSE config

CollectionConfig(args, tempName) ==
  LET NoRules == [r \in {} |-> Null]
  IN
  LET c0 == [name |-> tempName, fields |-> args.fields, rules |-> NoRules]
      c1 == WithRule(c0, args, "listRule")
      c2 == WithRule(c1, args, "viewRule")
      c3 == WithRule(c2, args, "createRule")
      c4 == WithRule(c3, args, "updateRule")
  IN  WithRule(c4, args, "deleteRule")

FinalNameIfDefined(args) == IF args.name # Undefined THEN args.name ELSE args.collection

\* const finalName = args.name || args.collection   (line 1605)
FinalName(args) == IF args.name \notin {Undefined, ""} THEN args.name ELSE args.collection

(***************************************************************************)
(* The store: what each call does when it succeeds, and when it can.       *)
(***************************************************************************)
Exists(st, name) == name \in DOMAIN st

Remove(st, name) == [n \in DOMAIN st \ {name} |-> st[n]]

\* pb.collections.create(config): rules that are not supplied get the store's default
StoreCreateCollection(st, config, id) ==
  (config.name :> [id |-> id,
                   fields |-> config.fields,
                   rules |-> [r \in RuleNames |->
                                IF r \in DOMAIN config.rules THEN config.rules[r] ELSE Null],
                   records |-> <<>>]) @@ st

\* pb.collection(name).getFullList()
StoreFullList(st, name) ==
  [n \in 1..Len(st[name].records) |-> StoreRead(st[name].records[n], name)]

\* pb.collection(name).create(payload)
StoreCreateRecord(st, name, payload) ==
  [st EXCEPT ![name].records = Append(@, StoreWrite(payload))]

\* pb.collections.delete(name)
StoreDeleteCollection(st, name) == Remove(st, name)

\* pb.collections.update(name, {name: newName}): the collection keeps its id,
\* fields, rules and records
StoreRename(st, name, newName) == (newName :> st[name]) @@ Remove(st, name)

\* The store refuses a record whose id is already in the collection.
CanCreateRecord(st, name, payload) ==
  /\ Exists(st, name)
  /\ \A n \in 1..Len(st[name].records) : Get(st[name].records[n], "id") # Get(payload, "id")

CanRename(st, name, newName) ==
  Exists(st, name) /\ (newName = name \/ ~Exists(st, newName))

(***************************************************************************)
(* Inputs.  The source collection "posts" holds up to MaxRecs records;     *)
(* every record has an id and a number a, odd records also have a number   *)
(* b, and no record has a key c.  "ghost" names no collection, "other"     *)
(* names a collection that already exists.                                 *)
(***************************************************************************)
OldFields == <<[name |-> "a", type |-> "number", required |-> TRUE],
               [name |-> "b", type |-> "number", required |-> FALSE]>>

TargetFields ==
  { <<[name |-> "a", type |-> "number", required |-> TRUE]>>,
    <<[name |-> "a", type |-> "text", required |-> FALSE],
      [name |-> "c", type |-> "number", required |-> FALSE]>> }

OldRules == [r \in RuleNames |-> IF r = "listRule" THEN "" ELSE "id = @request.auth.id"]

TransformFields == {"a", "b", "c"}

NotGiven == [given |-> FALSE, entries |-> <<>>]

MigrateArgs(collection, fields, dataTransforms, name, rules) ==
  [collection |-> collection, fields |-> fields, dataTransforms |-> dataTransforms,
   name |-> name,
   listRule |-> rules["listRule"], viewRule |-> rules["viewRule"],
   createRule |-> rules["createRule"], updateRule |-> rules["updateRule"],
   deleteRule |-> rules["deleteRule"]]

NoRuleArgs == [r \in RuleNames |-> Undefined]
F1 == CHOOSE f \in TargetFields : Len(f) = 1

MigrateCalls ==
  LET RuleValues == {Undefined, "", "@request.auth.id != ''"}
      Transforms == {"oldValue + 1", "oldValue.valueOf()", "missingFn(oldValue)", "oldValue +"}
      DistinctFields(entries) ==
        \A m, n \in 1..Len(entries) : m # n => entries[m][1] # entries[n][1]
      EntryLists ==
        UNION { {e \in [1..len -> TransformFields \X Transforms] : DistinctFields(e)}
                : len \in 0..MaxTransforms }
      DataTransforms == {NotGiven} \cup {[given |-> TRUE, entries |-> e] : e \in EntryLists}
      NameArgs == {Undefined, "", "articles", "other"}
      \* Arguments of migrate_collection: every list of transforms, every combination
      \* of rules, and every collection with every field list and every name.
      TransformCalls ==
        {MigrateArgs("posts", F1, d, Undefined, NoRuleArgs) : d \in DataTransforms}
      RuleCalls ==
        {MigrateArgs("posts", F1, NotGiven, Undefined, r) : r \in [RuleNames -> RuleValues]}
      OtherCalls ==
        {MigrateArgs(c, f, NotGiven, n, r) :
           c \in {"posts", "ghost"}, f \in TargetFields, n \in NameArgs,
           r \in {NoRuleArgs, [x \in RuleNames |-> ""]}}
  IN  TransformCalls \cup RuleCalls \cup OtherCalls

\* Arguments of create_record.
CreateRecordCalls ==
  {[collection |-> "posts", data |-> [id |-> Str("new"), a |-> Num(0)]]}

\* Arguments used when invocations overlap.
ConcurrentCalls ==
  {MigrateArgs("posts", F1, d, n, NoRuleArgs) :
     d \in {NotGiven, [given |-> TRUE, entries |-> <<<<"a", "oldValue + 1">>>>]},
     n \in {Undefined, "articles"}}

(***************************************************************************)
(* State.                                                                  *)
(***************************************************************************)
VARIABLES
  store,    \* the PocketBase store: collection name -> collection
  now,      \* the last value read from the clock by Date.now()
  nextId,   \* the id the store gives to the next collection it creates
  inv       \* per slot, the handler invocation running in it

vars == <<store, now, nextId, inv>>

Idle ==
  [tool |-> "none", pc |-> "idle", args |-> [none |-> TRUE], tempName |-> "",
   collectionConfig |-> [none |-> TRUE], finalName |-> "",
   oldRecords |-> <<>>, transformedRecords |-> <<>>, k |-> 0,
   collectionList |-> <<>>, collectionInfo |-> [none |-> TRUE], records |-> [none |-> TRUE],
   log |-> <<>>, store0 |-> [n \in {} |-> 0], result |-> "none", output |-> <<>>,
   error |-> [none |-> TRUE]]

Terminal == {"Renamed", "Done", "Failed"}

InitStores ==
  LET SourceRecord(n) ==
        IF n % 2 = 1
        THEN [id |-> Str("r" \o ToString(n)), a |-> Num(n), b |-> Num(n + 4)]
        ELSE [id |-> Str("r" \o ToString(n)), a |-> Num(n)]
      SourceRecordLists == {[n \in 1..m |-> SourceRecord(n)] : m \in 0..MaxRecs}
  IN
  { [n \in {"posts", "other"} \cup extra |->
       IF n = "posts"
       THEN [id |-> 1, fields |-> OldFields, rules |-> OldRules, records |-> recs]
       ELSE IF n = "other"
       THEN [id |-> 2, fields |-> OldFields, rules |-> OldRules, records |-> <<>>]
       ELSE [id |-> 3, fields |-> OldFields, rules |-> OldRules, records |-> <<>>]]
    : recs \in SourceRecordLists, extra \in {{}, {TempName("posts", 1)}} }

Init ==
  /\ store \in InitStores
  /\ now = 1
  /\ nextId = 4
  /\ inv = [i \in Slots |-> Idle]

(***************************************************************************)
(* The steps of migrateCollection (lines 1544-1627).  Each action is the   *)
(* return of the awaited store call together with the code that runs up   *)
(* to the next await.                                                      *)
(***************************************************************************)
\* The log of an invocation: the store calls it issued, in order, each with
\* its outcome ("pending" until the call returns, then "ok" or "failed").
Call(op, target, n) == [op |-> op, target |-> target, n |-> n, outcome |-> "pending"]

Issue(v, pc, call) == [v EXCEPT !.pc = pc, !.log = Append(@, call)]

Settle(v, outcome) == [v EXCEPT !.log[Len(v.log)].outcome = outcome]

\* The error the store client rejects a call with (a ClientResponseError):
\* the call it answers, a status and a message.
ClientResponseError(call) ==
  IF call.op \in {"collections.create", "records.create", "collections.update"}
  THEN [url |-> call.op, status |-> 400, message |-> "Failed to save."]
  ELSE [url |-> call.op, status |-> 404, message |-> "The requested resource wasn't found."]

\* new McpError(ErrorCode.InternalError, ...)
InternalError(tool, error) ==
  LET \* The messages of the errors the tools throw: a prefix and what is appended
      \* to it, JSON.stringify(error) (the whole error) or error.message.
      ErrorText ==
        CASE tool = "migrate_collection" ->
               [prefix |-> "Failed to migrate collection: ", detail |-> error]
          [] tool = "create_record" ->
               [prefix |-> "Failed to create record: ", detail |-> error]
          [] tool = "generate_typescript_interfaces" ->
               [prefix |-> "Failed to generate TypeScript interfaces: ", detail |-> error.message]
          [] tool = "analyze_collection_data" ->
               [prefix |-> "Failed to analyze collection data: ", detail |-> error.message]
  IN  [code |-> "InternalError", message |-> ErrorText]

\* The n-th call of the log rejects and the catch of the tool throws.
Thrown(v, n) ==
  [v EXCEPT !.log[n].outcome = "failed", !.pc = "Failed", !.result = "error",
            !.error = InternalError(v.tool, ClientResponseError(v.log[n]))]

FailSwallowed(i) ==
  [inv EXCEPT ![i] = [Settle(inv[i], "failed") EXCEPT !.pc = "Done", !.result = "success"]]

\* The awaited call rejects: catch (error) { throw new McpError(...) }  (lines 1620-1626)
Fail(i) == [inv EXCEPT ![i] = Thrown(inv[i], Len(inv[i].log))]

CallMigrateCollectionReadsFirst(i, args, timestamp) ==
  /\ inv[i].pc = "idle"
  /\ now' = timestamp
  /\ LET tempName == TempName(args.collection, timestamp)
     IN  inv' = [inv EXCEPT ![i] =
                   [Idle EXCEPT !.tool = "migrate_collection",
                                !.pc = "getFullList",
                                !.args = args,
                                !.tempName = tempName,
                                !.collectionConfig = CollectionConfig(args, tempName),
                                !.log = <<Call("getFullList", args.collection, 0)>>,
                                !.store0 = store,
                                !.result = "pending"]]
  /\ UNCHANGED <<store, nextId>>

\* Lines 796-833 and 1544-1568: the handler is entered, the shadow name and
\* configuration are built and collections.create is issued.
CallMigrateCollection(i, args, timestamp) ==
  /\ inv[i].pc = "idle"
  /\ now' = timestamp
  /\ LET tempName == TempName(args.collection, timestamp)
     IN  inv' = [inv EXCEPT ![i] =
                   [Idle EXCEPT !.tool = "migrate_collection",
                                !.pc = "collections.create",
                                !.args = args,
                                !.tempName = tempName,
                                !.collectionConfig = CollectionConfig(args, tempName),
                                !.log = <<Call("collections.create", tempName, 0)>>,
                                !.store0 = store,
                                !.result = "pending"]]
  /\ UNCHANGED <<store, nextId>>

CreateShadowReturnsUnchecked(i) ==
  /\ inv[i].pc = "collections.create"
  /\ \/ /\ ~Exists(store, inv[i].tempName)
        /\ store' = StoreCreateCollection(store, inv[i].collectionConfig, nextId)
        /\ nextId' = nextId + 1
        /\ inv' = [inv EXCEPT ![i] =
                     Issue(Settle(inv[i], "ok"), "getFullList",
                           Call("getFullList", inv[i].args.collection, 0))]
     \/ /\ inv' = [inv EXCEPT ![i] =
                     Issue(Settle(inv[i], "failed"), "getFullList",
                           Call("getFullList", inv[i].args.collection, 0))]
        /\ UNCHANGED <<store, nextId>>
  /\ UNCHANGED now

\* Line 1568 returns; lines 1571-1573 issue getFullList.
CreateShadowReturns(i) ==
  /\ inv[i].pc = "collections.create"
  /\ \/ /\ ~Exists(store, inv[i].tempName)
        /\ store' = StoreCreateCollection(store, inv[i].collectionConfig, nextId)
        /\ nextId' = nextId + 1
        /\ inv' = [inv EXCEPT ![i] =
                     Issue(Settle(inv[i], "ok"), "getFullList",
                           Call("getFullList", inv[i].args.collection, 0))]
     \/ /\ inv' = Fail(i)
        /\ UNCHANGED <<store, nextId>>
  /\ UNCHANGED now

\* After the last record (or when there is none): line 1602 issues collections.delete.
IssueDelete(v) ==
  Issue(v, "collections.delete", Call("collections.delete", v.args.collection, 0))

\* Line 1598 issues the create of the k-th transformed record.
IssueCreateRecord(v, k) ==
  Issue([v EXCEPT !.k = k], "records.create", Call("records.create", v.tempName, k))

LoopSkipsLast(v) ==
  IF v.k + 1 < Len(v.transformedRecords)
  THEN IssueCreateRecord(v, v.k + 1)
  ELSE IssueDelete(v)

\* for (const record of transformedRecords) { await create(record) }; then the delete:
\* v.k records have been created.
Loop(v) ==
  IF v.k < Len(v.transformedRecords)
  THEN IssueCreateRecord(v, v.k + 1)
  ELSE IssueDelete(v)

AnyTransformThrows(oldRecords, dataTransforms) ==
  /\ dataTransforms.given
  /\ \E n \in 1..Len(oldRecords), m \in 1..Len(dataTransforms.entries) :
       ~EvalTransform(dataTransforms.entries[m][2],
                      Get(oldRecords[n], dataTransforms.entries[m][1])).ok

GetFullListReturnsNoCatch(i) ==
  /\ inv[i].pc = "getFullList"
  /\ \/ /\ Exists(store, inv[i].args.collection)
        /\ LET oldRecords == StoreFullList(store, inv[i].args.collection)
               v == [Settle(inv[i], "ok") EXCEPT
                       !.oldRecords = oldRecords,
                       !.transformedRecords =
                          TransformAll(oldRecords, inv[i].args.dataTransforms)]
           IN  inv' = [inv EXCEPT ![i] =
                         IF AnyTransformThrows(oldRecords, inv[i].args.dataTransforms)
                         THEN [v EXCEPT !.pc = "Failed", !.result = "error"]
                         ELSE Loop(v)]
     \/ inv' = Fail(i)
  /\ UNCHANGED <<store, now, nextId>>

\* Lines 1571-1573 return; lines 1576-1594 transform; the loop of 1597 starts.
GetFullListReturns(i) ==
  /\ inv[i].pc = "getFullList"
  /\ \/ /\ Exists(store, inv[i].args.collection)
        /\ LET oldRecords == StoreFullList(store, inv[i].args.collection)
               v == [Settle(inv[i], "ok") EXCEPT
                       !.oldRecords = oldRecords,
                       !.transformedRecords =
                          TransformAll(oldRecords, inv[i].args.dataTransforms)]
           IN  inv' = [inv EXCEPT ![i] = Loop(v)]
     \/ inv' = Fail(i)
  /\ UNCHANGED <<store, now, nextId>>

CreateRecordReturnsCleanup(i) ==
  /\ inv[i].pc = "records.create"
  /\ \/ /\ CanCreateRecord(store, inv[i].tempName, inv[i].transformedRecords[inv[i].k])
        /\ store' = StoreCreateRecord(store, inv[i].tempName,
                                      inv[i].transformedRecords[inv[i].k])
        /\ inv' = [inv EXCEPT ![i] = Loop(Settle(inv[i], "ok"))]
     \/ /\ inv' = Fail(i)
        /\ store' = StoreDeleteCollection(store, inv[i].tempName)
  /\ UNCHANGED <<now, nextId>>

\* Line 1598 returns for record k; the loop goes on or line 1602 is reached.
CreateRecordReturns(i) ==
  /\ inv[i].pc = "records.create"
  /\ \/ /\ CanCreateRecord(store, inv[i].tempName, inv[i].transformedRecords[inv[i].k])
        /\ store' = StoreCreateRecord(store, inv[i].tempName,
                                      inv[i].transformedRecords[inv[i].k])
        /\ inv' = [inv EXCEPT ![i] = Loop(Settle(inv[i], "ok"))]
     \/ /\ inv' = Fail(i)
        /\ UNCHANGED store
  /\ UNCHANGED <<now, nextId>>

DeleteOldReturnsGoesOn(i) ==
  /\ inv[i].pc = "collections.delete"
  /\ \/ /\ Exists(store, inv[i].args.collection)
        /\ store' = StoreDeleteCollection(store, inv[i].args.collection)
        /\ LET finalName == FinalName(inv[i].args)
           IN  inv' = [inv EXCEPT ![i] =
                         Issue([Settle(inv[i], "ok") EXCEPT !.finalName = finalName],
                               "collections.update",
                               Call("collections.update", inv[i].tempName, 0))]
     \/ /\ LET finalName == FinalName(inv[i].args)
           IN  inv' = [inv EXCEPT ![i] =
                         Issue([Settle(inv[i], "failed") EXCEPT !.finalName = finalName],
                               "collections.update",
                               Call("collections.update", inv[i].tempName, 0))]
        /\ UNCHANGED store
  /\ UNCHANGED <<now, nextId>>

\* Line 1602 returns; lines 1605-1610 pick the final name and issue the rename.
DeleteOldReturns(i) ==
  /\ inv[i].pc = "collections.delete"
  /\ \/ /\ Exists(store, inv[i].args.collection)
        /\ store' = StoreDeleteCollection(store, inv[i].args.collection)
        /\ LET finalName == FinalName(inv[i].args)
           IN  inv' = [inv EXCEPT ![i] =
                         Issue([Settle(inv[i], "ok") EXCEPT !.finalName = finalName],
                               "collections.update",
                               Call("collections.update", inv[i].tempName, 0))]
     \/ /\ inv' = Fail(i)
        /\ UNCHANGED store
  /\ UNCHANGED <<now, nextId>>

RenameReturnsRestores(i) ==
  /\ inv[i].pc = "collections.update"
  /\ \/ /\ CanRename(store, inv[i].tempName, inv[i].finalName)
        /\ store' = StoreRename(store, inv[i].tempName, inv[i].finalName)
        /\ inv' = [inv EXCEPT ![i] =
                     [Settle(inv[i], "ok") EXCEPT
                        !.pc = "Renamed", !.result = "success",
                        !.output = [k \in {"id", "name", "fields", "rules"} |->
                                      IF k = "name" THEN inv[i].finalName
                                      ELSE store[inv[i].tempName][k]]]]
     \/ /\ inv' = Fail(i)
        /\ store' = (inv[i].args.collection :> inv[i].store0[inv[i].args.collection]) @@ store
  /\ UNCHANGED <<now, nextId>>

\* Lines 1608-1610 return; lines 1612-1619 return the renamed collection.
RenameReturns(i) ==
  /\ inv[i].pc = "collections.update"
  /\ \/ /\ CanRename(store, inv[i].tempName, inv[i].finalName)
        /\ store' = StoreRename(store, inv[i].tempName, inv[i].finalName)
        /\ inv' = [inv EXCEPT ![i] =
                     [Settle(inv[i], "ok") EXCEPT
                        !.pc = "Renamed", !.result = "success",
                        !.output = [k \in {"id", "name", "fields", "rules"} |->
                                      IF k = "name" THEN inv[i].finalName
                                      ELSE store[inv[i].tempName][k]]]]
     \/ /\ inv' = Fail(i)
        /\ UNCHANGED store
  /\ UNCHANGED <<now, nextId>>

\* Date.now() at a call: the clock does not go backwards.
ClockValues == now..MaxClock

(***************************************************************************)
(* createRecord (lines 1192-1219): one awaited pb.collection().create().   *)
(***************************************************************************)
CallCreateRecord(i, args) ==
  /\ inv[i].pc = "idle"
  /\ inv' = [inv EXCEPT ![i] =
               [Idle EXCEPT !.tool = "create_record",
                            !.pc = "create_record",
                            !.args = args,
                            !.log = <<Call("records.create", args.collection, 0)>>,
                            !.store0 = store,
                            !.result = "pending"]]
  /\ UNCHANGED <<store, now, nextId>>

CreateRecordToolReturns(i) ==
  /\ inv[i].pc = "create_record"
  /\ \/ /\ CanCreateRecord(store, inv[i].args.collection, inv[i].args.data)
        /\ store' = StoreCreateRecord(store, inv[i].args.collection, inv[i].args.data)
        /\ inv' = [inv EXCEPT ![i] =
                     [Settle(inv[i], "ok") EXCEPT
                        !.pc = "Done", !.result = "success",
                        !.output = StoreRead(StoreWrite(inv[i].args.data),
                                             inv[i].args.collection)]]
     \/ /\ inv' = Fail(i)
        /\ UNCHANGED store
  /\ UNCHANGED <<now, nextId>>

Step(i) ==
  \/ CreateShadowReturns(i)
  \/ GetFullListReturns(i)
  \/ CreateRecordReturns(i)
  \/ DeleteOldReturns(i)
  \/ RenameReturns(i)

\* A client that sends one call and waits for its result.
Next ==
  \/ \E args \in MigrateCalls, timestamp \in ClockValues :
       /\ \A j \in Slots : inv[j].pc = "idle"
       /\ CallMigrateCollection(1, args, timestamp)
  \/ \E i \in Slots : Step(i)

Spec == Init /\ [][Next]_vars

\* A client that sends calls without waiting: the handler of lines 796-856
\* is entered for each, and the invocations interleave at their awaits.
NextConc ==
  \/ \E i \in Slots, args \in ConcurrentCalls, timestamp \in ClockValues :
       CallMigrateCollection(i, args, timestamp)
  \/ \E i \in Slots, args \in CreateRecordCalls : CallCreateRecord(i, args)
  \/ \E i \in Slots : Step(i)
  \/ \E i \in Slots : CreateRecordToolReturns(i)

SpecConc == Init /\ [][NextConc]_vars

(***************************************************************************)
(* generate_pb_schema (lines 860-955).                                     *)
(*                                                                         *)
(* The source text is a sequence of tokens: a word is a maximal run of \w  *)
(* characters, ws a maximal run of white space, and every other character  *)
(* is a token of its own.  On such a sequence the two regular expressions  *)
(* of analyzeTypeScriptForSchema match as they do on the characters: \w+   *)
(* followed by a character that is not a word character takes a whole      *)
(* word, and a match that fails at the start of a word fails at every      *)
(* later character of the word.                                            *)
(***************************************************************************)
Word(text) == [kind |-> "word", text |-> text]
Ws == [kind |-> "ws", text |-> " "]
Ch(c) == [kind |-> "char", text |-> c]
At(tokens, p) ==
  LET EndOfText == [kind |-> "end", text |-> ""]
  IN  IF p \in 1..Len(tokens) THEN tokens[p] ELSE EndOfText

SkipWs(tokens, p) == IF At(tokens, p).kind = "ws" THEN p + 1 ELSE p

NoMatch == [found |-> FALSE]

\* The first position from p on that holds the character c, or 0.
RECURSIVE Find(_, _, _)
Find(tokens, c, p) ==
  IF p > Len(tokens) THEN 0
  ELSE IF tokens[p] = Ch(c) THEN p
  ELSE Find(tokens, c, p + 1)

\* /interface\s+(\w+)\s*{([^}]*)}/gs tried at position p   (lines 896-898)
MatchInterfaceAt(tokens, p) ==
  LET open == SkipWs(tokens, p + 3)
      close == Find(tokens, "}", open + 1)
  IN  IF /\ At(tokens, p) = Word("interface")
         /\ At(tokens, p + 1).kind = "ws"
         /\ At(tokens, p + 2).kind = "word"
         /\ At(tokens, open) = Ch("{")
         /\ close # 0
      THEN [found |-> TRUE, name |-> tokens[p + 2].text,
            body |-> SubSeq(tokens, open + 1, close - 1), end |-> close]
      ELSE NoMatch

\* sourceCode.matchAll(...): the matches from position p on, leftmost first,
\* each search starting where the previous match ended.
RECURSIVE InterfaceMatches(_, _)
InterfaceMatches(tokens, p) ==
  IF p > Len(tokens) THEN <<>>
  ELSE LET m == MatchInterfaceAt(tokens, p)
       IN  IF m.found THEN <<m>> \o InterfaceMatches(tokens, m.end + 1)
           ELSE InterfaceMatches(tokens, p + 1)

\* /(\w+)(\?)?:\s*(\w+)(\[\])?;/g tried at position p   (lines 905-907)
MatchPropertyAt(tokens, p) ==
  LET optional == At(tokens, p + 1) = Ch("?")
      colon == IF optional THEN p + 2 ELSE p + 1
      type == SkipWs(tokens, colon + 1)
      array == At(tokens, type + 1) = Ch("[") /\ At(tokens, type + 2) = Ch("]")
      semicolon == IF array THEN type + 3 ELSE type + 1
  IN  IF /\ At(tokens, p).kind = "word"
         /\ At(tokens, colon) = Ch(":")
         /\ At(tokens, type).kind = "word"
         /\ At(tokens, semicolon) = Ch(";")
      THEN [found |-> TRUE, fieldName |-> tokens[p].text, isOptional |-> optional,
            fieldType |-> tokens[type].text, isArray |-> array, end |-> semicolon]
      ELSE NoMatch

RECURSIVE PropertyMatches(_, _)
PropertyMatches(tokens, p) ==
  IF p > Len(tokens) THEN <<>>
  ELSE LET m == MatchPropertyAt(tokens, p)
       IN  IF m.found THEN <<m>> \o PropertyMatches(tokens, m.end + 1)
           ELSE PropertyMatches(tokens, p + 1)

\* Lines 915-920.
PbType(fieldType, isArray) ==
  IF fieldType = "number" THEN "number"
  ELSE IF fieldType = "boolean" THEN "bool"
  ELSE IF fieldType = "Date" THEN "date"
  ELSE IF isArray THEN "json"
  ELSE "text"

ExtractedFieldsAllRequired(body) ==
  LET props == PropertyMatches(body, 1)
  IN  [n \in 1..Len(props) |->
         [name |-> props[n].fieldName,
          type |-> PbType(props[n].fieldType, props[n].isArray),
          required |-> TRUE]]

\* Lines 909-927.
ExtractedFields(body) ==
  LET props == PropertyMatches(body, 1)
  IN  [n \in 1..Len(props) |->
         [name |-> props[n].fieldName,
          type |-> PbType(props[n].fieldType, props[n].isArray),
          required |-> ~props[n].isOptional]]

\* String.prototype.toLowerCase on the type names of TypeNames.
ToLowerCase(name) ==
  CASE name = "User" -> "user"
    [] name = "USERS" -> "users"
    [] name = "Users" -> "users"
    [] name = "Product" -> "product"
    [] name = "SuperUser" -> "superuser"
    [] OTHER -> name

Truthy(value) == value = "true"

AuthFields == <<[name |-> "email", type |-> "email", required |-> TRUE],
                [name |-> "password", type |-> "text", required |-> TRUE]>>

TimestampFields == <<[name |-> "created", type |-> "date", required |-> FALSE],
                     [name |-> "updated", type |-> "date", required |-> FALSE]>>

WithAuthUserOnly(name, fields, options) ==
  IF Truthy(options.includeAuthentication) /\ name = "user"
  THEN fields \o AuthFields
  ELSE fields

\* Lines 929-938; name is the lower-cased type name.
WithAuth(name, fields, options) ==
  IF Truthy(options.includeAuthentication) /\ (name = "user" \/ name = "users")
  THEN fields \o AuthFields
  ELSE fields

WithTimestampsFirst(fields, options) ==
  IF Truthy(options.includeTimestamps) THEN TimestampFields \o fields ELSE fields

\* Lines 940-946.
WithTimestamps(fields, options) ==
  IF Truthy(options.includeTimestamps) THEN fields \o TimestampFields ELSE fields

CollectionOfDistinctNames(match, options) ==
  LET name == ToLowerCase(match.name)
      extracted == ExtractedFields(match.body)
      appended == WithTimestamps(WithAuth(name, <<>>, options), options)
      IsNew(field) == \A n \in 1..Len(extracted) : extracted[n].name # field.name
  IN  [name |-> name, schema |-> extracted \o SelectSeq(appended, IsNew)]

\* Lines 900-952: one collection per match.
CollectionOf(match, options) ==
  LET name == ToLowerCase(match.name)
  IN  [name |-> name,
       schema |-> WithTimestamps(WithAuth(name, ExtractedFields(match.body), options),
                                 options)]

\* const { sourceCode, options = {} } = args   (line 862)
OptionsOf(args) ==
  IF args.options.given THEN args.options
  ELSE [given |-> TRUE, includeAuthentication |-> Undefined, includeTimestamps |-> Undefined]

analyzeTypeScriptForSchema(sourceCode, options) ==
  LET matches == InterfaceMatches(sourceCode, 1)
  IN  [n \in 1..Len(matches) |-> CollectionOf(matches[n], options)]

(***************************************************************************)
(* Source texts: interface blocks of up to MaxMembers members.             *)
(***************************************************************************)
TypeNames == {"User", "USERS", "users", "Product", "SuperUser"}
\* One member of each form the type map tells apart (lines 915-920).
TypeMapKinds == {"string", "number", "boolean", "Date", "Category",
                 "string[]", "number[]", "boolean[]", "Date[]", "Category[]"}

FieldNameOf(kind) ==
  CASE kind = "string" -> "email"
    [] kind = "optional number" -> "created"
    [] kind = "Date[]" -> "days"
    [] kind = "string[]" -> "tags"
    [] kind = "union" -> "nick"
    [] kind = "object" -> "address"
    [] kind = "number" -> "price"
    [] kind = "boolean" -> "active"
    [] kind = "Date" -> "due"
    [] kind = "Category" -> "category"
    [] kind = "number[]" -> "scores"
    [] kind = "boolean[]" -> "flags"
    [] kind = "Category[]" -> "categories"

\* A declared member: its kind and its name.
MemberDecl(kind, f) == [kind |-> kind, name |-> f]

RECURSIVE Flatten(_)
Flatten(seqs) == IF seqs = <<>> THEN <<>> ELSE Head(seqs) \o Flatten(Tail(seqs))

\* A declared block: its type name and its members in declaration order.
BlockDecl(name, members) == [name |-> name, members |-> members]

\* The text of a block.
Block(name, members) ==
  LET \* The text of a member of the given kind named f.
      Member(kind, f) ==
        CASE kind = "string" -> <<Ws, Word(f), Ch(":"), Ws, Word("string"), Ch(";")>>
          [] kind = "optional number" -> <<Ws, Word(f), Ch("?"), Ch(":"), Ws, Word("number"), Ch(";")>>
          [] kind = "Date[]" -> <<Ws, Word(f), Ch(":"), Ws, Word("Date"), Ch("["), Ch("]"), Ch(";")>>
          [] kind = "string[]" -> <<Ws, Word(f), Ch(":"), Word("string"), Ch("["), Ch("]"), Ch(";")>>
          [] kind = "union" -> <<Ws, Word(f), Ch(":"), Ws, Word("string"), Ws, Ch("|"), Ws,
                                 Word("null"), Ch(";")>>
          [] kind = "object" -> <<Ws, Word(f), Ch(":"), Ws, Ch("{"), Ws, Word("x"), Ch(":"), Ws,
                                  Word("number"), Ch(";"), Ws, Ch("}"), Ch(";")>>
          [] kind = "number" -> <<Ws, Word(f), Ch(":"), Ws, Word("number"), Ch(";")>>
          [] kind = "boolean" -> <<Ws, Word(f), Ch(":"), Ws, Word("boolean"), Ch(";")>>
          [] kind = "Date" -> <<Ws, Word(f), Ch(":"), Ws, Word("Date"), Ch(";")>>
          [] kind = "Category" -> <<Ws, Word(f), Ch(":"), Ws, Word("Category"), Ch(";")>>
          [] kind = "number[]" -> <<Ws, Word(f), Ch(":"), Ws, Word("number"), Ch("["), Ch("]"), Ch(";")>>
          [] kind = "boolean[]" -> <<Ws, Word(f), Ch(":"), Ws, Word("boolean"), Ch("["), Ch("]"), Ch(";")>>
          [] kind = "Category[]" -> <<Ws, Word(f), Ch(":"), Ws, Word("Category"), Ch("["), Ch("]"),
                                      Ch(";")>>
  IN
  <<Word("interface"), Ws, Word(name), Ws, Ch("{")>>
  \o Flatten([n \in 1..Len(members) |-> Member(members[n].kind, members[n].name)])
  \o <<Ws, Ch("}")>>

MemberLists ==
  LET MemberKinds == {"string", "optional number", "Date[]", "string[]", "union", "object"}
      Members == {MemberDecl(kind, FieldNameOf(kind)) : kind \in MemberKinds}
  IN  UNION {[1..len -> Members] : len \in 0..MaxMembers}

\* The Product block of the README (lines 340-352), cut to three members.
ProductExample ==
  BlockDecl("Product", <<MemberDecl("string", "name"), MemberDecl("number", "price"),
                         MemberDecl("string[]", "tags")>>)

\* Members that have the names of the fields lines 934-935 and 943-944 append.
ReservedMembers ==
  {MemberDecl("string", "email"), MemberDecl("string", "password"),
   MemberDecl("optional number", "created"), MemberDecl("Date", "updated")}

\* A source text as declared: the text before the first block and the blocks.
Declaration(prefix, blocks) == [prefix |-> prefix, blocks |-> blocks]

Declarations ==
  {Declaration(<<>>, <<BlockDecl(name, members)>>) : name \in TypeNames, members \in MemberLists}
  \cup {Declaration(<<Word("export"), Ws>>, <<BlockDecl(n1, <<m>>), BlockDecl(n2, <<>>)>>) :
          n1 \in {"Users", "Product"}, n2 \in {"user", "Product"},
          m \in {MemberDecl("string", "email"), MemberDecl("object", "address")}}
  \cup {Declaration(<<Word("type"), Ws, Word("User"), Ws, Ch("="), Ws, Word("string"), Ch(";")>>,
                     <<>>)}
  \cup {Declaration(<<>>, <<BlockDecl("Product", <<MemberDecl(kind, FieldNameOf(kind))>>)>>) :
          kind \in TypeMapKinds}
  \cup {Declaration(<<>>, <<ProductExample>>)}
  \cup {Declaration(<<>>, <<BlockDecl("users", <<m1, m2>>)>>) : m1, m2 \in ReservedMembers}

\* The blocks of a declaration, separated by white space.
RECURSIVE RenderBlocks(_)
RenderBlocks(blocks) ==
  IF blocks = <<>> THEN <<>>
  ELSE Block(Head(blocks).name, Head(blocks).members)
       \o (IF Len(blocks) > 1 THEN <<Ws>> ELSE <<>>) \o RenderBlocks(Tail(blocks))

Render(decl) == decl.prefix \o RenderBlocks(decl.blocks)

SourceTexts == {Render(decl) : decl \in Declarations}

SchemaCalls ==
  LET OptionValues == {Undefined, "false", "true"}
      SchemaOptions ==
        {[given |-> FALSE, includeAuthentication |-> Undefined, includeTimestamps |-> Undefined]}
        \cup [given : {TRUE}, includeAuthentication : OptionValues, includeTimestamps : OptionValues]
  IN  [sourceCode : SourceTexts, options : SchemaOptions]

CallGeneratePbSchemaKeepsCollections(i, args) ==
  /\ inv[i].pc = "idle"
  /\ LET kept == Flatten([j \in 1..NumSlots |->
                            IF inv[j].tool = "generate_pb_schema" THEN inv[j].output ELSE <<>>])
     IN  inv' = [inv EXCEPT ![i] =
                   [Idle EXCEPT !.tool = "generate_pb_schema",
                                !.pc = "Done",
                                !.args = args,
                                !.store0 = store,
                                !.result = "success",
                                !.output = kept \o analyzeTypeScriptForSchema(args.sourceCode,
                                                                               OptionsOf(args))]]
  /\ UNCHANGED <<store, now, nextId>>

\* generatePbSchema (lines 860-888): no store call; the result is the list of
\* collections, returned as JSON text.
CallGeneratePbSchema(i, args) ==
  /\ inv[i].pc = "idle"
  /\ inv' = [inv EXCEPT ![i] =
               [Idle EXCEPT !.tool = "generate_pb_schema",
                            !.pc = "Done",
                            !.args = args,
                            !.store0 = store,
                            !.result = "success",
                            !.output = analyzeTypeScriptForSchema(args.sourceCode,
                                                                  OptionsOf(args))]]
  /\ UNCHANGED <<store, now, nextId>>

\* A client that calls generate_pb_schema.
NextSchema ==
  \E args \in SchemaCalls :
    /\ \A j \in Slots : inv[j].pc = "idle"
    /\ CallGeneratePbSchema(1, args)

\* generate_pb_schema reads nothing of the store: one store is enough.
InitSchema == Init /\ DOMAIN store = {"posts", "other"} /\ store["posts"].records = <<>>

SpecSchema == InitSchema /\ [][NextSchema]_vars

(***************************************************************************)
(* generate_typescript_interfaces (lines 957-1048).                        *)
(*                                                                         *)
(* A string is read character by character through Chars; the emitted      *)
(* text is a sequence of lines.                                            *)
(***************************************************************************)
\* String.prototype.toUpperCase on one character.
ToUpperCase(c) ==
  LET LowerLetters == <<"a", "b", "c", "d", "e", "f", "g", "h", "i", "j", "k", "l", "m",
                        "n", "o", "p", "q", "r", "s", "t", "u", "v", "w", "x", "y", "z">>
      UpperLetters == <<"A", "B", "C", "D", "E", "F", "G", "H", "I", "J", "K", "L", "M",
                        "N", "O", "P", "Q", "R", "S", "T", "U", "V", "W", "X", "Y", "Z">>
  IN
  IF \E n \in 1..Len(LowerLetters) : LowerLetters[n] = c
  THEN UpperLetters[CHOOSE n \in 1..Len(LowerLetters) : LowerLetters[n] = c]
  ELSE c

\* The characters of the collection names and ids of the inputs.
Chars(str) ==
  CASE str = "posts" -> <<"p", "o", "s", "t", "s">>
    [] str = "other" -> <<"o", "t", "h", "e", "r">>
    [] str = "user_profiles" -> <<"u", "s", "e", "r", "_", "p", "r", "o", "f", "i", "l", "e", "s">>
    [] str = "_pb_users_auth_" -> <<"_", "p", "b", "_", "u", "s", "e", "r", "s", "_",
                                    "a", "u", "t", "h", "_">>
    [] str = "Legacy" -> <<"L", "e", "g", "a", "c", "y">>
    [] str = "products" -> <<"p", "r", "o", "d", "u", "c", "t", "s">>
    [] str = "articles" -> <<"a", "r", "t", "i", "c", "l", "e", "s">>
    [] \E t \in 1..9 : str = TempName("posts", t) ->
         <<"p", "o", "s", "t", "s", "_", "m", "i", "g", "r", "a", "t", "i", "o", "n", "_",
           ToString(CHOOSE t \in 1..9 : str = TempName("posts", t))>>

\* str.split("_"): the words between the separators, empty words included.
RECURSIVE Split(_, _)
Split(chars, word) ==
  IF chars = <<>> THEN <<word>>
  ELSE IF Head(chars) = "_" THEN <<word>> \o Split(Tail(chars), <<>>)
  ELSE Split(Tail(chars), Append(word, Head(chars)))

\* The string of a sequence of characters.
RECURSIVE Join(_)
Join(chars) == IF chars = <<>> THEN "" ELSE Head(chars) \o Join(Tail(chars))

\* word.charAt(0).toUpperCase() + word.slice(1)   (line 1020)
Capitalize(word) ==
  IF word = <<>> THEN "" ELSE ToUpperCase(Head(word)) \o Join(Tail(word))

\* Lines 1017-1022.
pascalCase(str) ==
  LET words == Split(Chars(str), <<>>)
  IN  Join([n \in 1..Len(words) |-> Capitalize(words[n])])

\* field.options of a field of the store; a field without options has none
\* of their keys.
NoOptions == [k \in {} |-> Undefined]

\* options?.collectionId is truthy
HasCollectionId(options) ==
  "collectionId" \in DOMAIN options /\ options.collectionId \notin {Undefined, ""}

mapPbTypeToTsTypeDates(pbType, options) ==
  CASE pbType \in {"text", "editor", "url", "email"} -> "string"
    [] pbType = "number" -> "number"
    [] pbType = "bool" -> "boolean"
    [] pbType \in {"date", "autodate"} -> "Date"
    [] pbType = "json" -> "any"
    [] pbType = "relation" ->
         IF HasCollectionId(options) THEN "string | " \o pascalCase(options.collectionId)
         ELSE "string"
    [] OTHER -> "string"

\* Lines 1024-1048.
mapPbTypeToTsType(pbType, options) ==
  CASE pbType \in {"text", "editor", "url", "email"} -> "string"
    [] pbType = "number" -> "number"
    [] pbType = "bool" -> "boolean"
    [] pbType = "date" -> "string"
    [] pbType = "json" -> "any"
    [] pbType = "relation" ->
         IF HasCollectionId(options) THEN "string | " \o pascalCase(options.collectionId)
         ELSE "string"
    [] OTHER -> "string"

\* The lines of the emitted text.
HeaderLine == [line |-> "header"]
InterfaceLine(name) == [line |-> "interface", name |-> name]
MemberLine(name, optional, tsType) ==
  [line |-> "member", name |-> name, optional |-> optional, type |-> tsType]
EndLine == [line |-> "end"]

\* Lines 986-989: the member of one field.
FieldLine(field) ==
  LET FieldOptions == IF "options" \in DOMAIN field THEN field.options ELSE NoOptions
  IN  MemberLine(field.name, ~field.required, mapPbTypeToTsType(field.type, FieldOptions))

\* collection.fields || []   (line 984)
FieldsOrNone(collection) ==
  IF "fields" \in DOMAIN collection THEN collection.fields ELSE <<>>

InterfaceOfNoSystemFields(collection) ==
  LET fields == FieldsOrNone(collection)
  IN  <<InterfaceLine(pascalCase(collection.name)), MemberLine("id", FALSE, "string")>>
      \o [n \in 1..Len(fields) |-> FieldLine(fields[n])]
      \o <<EndLine>>

\* Lines 978-996: the interface of one collection.
InterfaceOf(collection) ==
  LET fields == FieldsOrNone(collection)
  IN  <<InterfaceLine(pascalCase(collection.name)), MemberLine("id", FALSE, "string")>>
      \o [n \in 1..Len(fields) |-> FieldLine(fields[n])]
      \o <<MemberLine("created", FALSE, "string"), MemberLine("updated", FALSE, "string"),
           EndLine>>

\* Lines 974-997.
TypeScriptCode(collectionList) ==
  <<HeaderLine>> \o Flatten([n \in 1..Len(collectionList) |-> InterfaceOf(collectionList[n])])

\* pb.collections.getOne(name)
StoreGetOne(st, name) ==
  [k \in (DOMAIN st[name] \ {"records"}) \cup {"name"} |->
     IF k = "name" THEN name ELSE st[name][k]]

\* const { collections = [], options = {} } = args   (line 959)
CollectionsOf(args) == IF args.collections.given THEN args.collections.names ELSE <<>>

\* Lines 957-970: the handler is entered and the collections are asked for:
\* all of them with one getList, or each by name, all calls issued together.
CallGenerateTypescriptInterfaces(i, args) ==
  /\ inv[i].pc = "idle"
  /\ LET collections == CollectionsOf(args)
     IN  inv' = [inv EXCEPT ![i] =
                   [Idle EXCEPT
                      !.tool = "generate_typescript_interfaces",
                      !.pc = IF collections = <<>> THEN "collections.getList"
                             ELSE "collections.getOne",
                      !.args = args,
                      !.collectionList = [n \in 1..Len(collections) |-> Null],
                      !.log = IF collections = <<>>
                              THEN <<Call("collections.getList", "", 0)>>
                              ELSE [n \in 1..Len(collections) |->
                                      Call("collections.getOne", collections[n], n)],
                      !.store0 = store,
                      !.result = "pending"]]
  /\ UNCHANGED <<store, now, nextId>>

\* The result of the handler once collectionList is known (lines 973-1006).
Emitted(v, collectionList) ==
  [v EXCEPT !.pc = "Done", !.result = "success", !.collectionList = collectionList,
            !.output = TypeScriptCode(collectionList)]

\* getList(1, 100)   (line 964)
PageSize == 100

\* The first page of a listing: at most pageSize items.
FirstPage(list, pageSize) ==
  SubSeq(list, 1, IF Len(list) < pageSize THEN Len(list) ELSE pageSize)

\* getList(1, 100) returns (lines 964-965): its items are the list.
CollectionsGetListReturns(i) ==
  LET \* The orders in which the store can list its collections.
      Listings(st) ==
        {l \in [1..Cardinality(DOMAIN st) -> DOMAIN st] :
           \A m, n \in 1..Cardinality(DOMAIN st) : m # n => l[m] # l[n]}
  IN
  /\ inv[i].pc = "collections.getList"
  /\ \/ \E l \in Listings(store) :
          inv' = [inv EXCEPT ![i] =
                    Emitted(Settle(inv[i], "ok"),
                            FirstPage([n \in 1..Len(l) |-> StoreGetOne(store, l[n])],
                                      PageSize))]
     \/ inv' = Fail(i)
  /\ UNCHANGED <<store, now, nextId>>

\* One getOne of the Promise.all of lines 968-970 returns: the first one to
\* fail fails the handler, the last one to succeed lets it go on.
CollectionsGetOneReturns(i, n) ==
  /\ inv[i].pc = "collections.getOne"
  /\ n \in 1..Len(inv[i].log)
  /\ inv[i].log[n].outcome = "pending"
  /\ \/ /\ Exists(store, inv[i].log[n].target)
        /\ LET v == [inv[i] EXCEPT !.log[n].outcome = "ok"]
               collectionList ==
                 [inv[i].collectionList EXCEPT ![n] = StoreGetOne(store, inv[i].log[n].target)]
           IN  inv' = [inv EXCEPT ![i] =
                         IF \A m \in 1..Len(v.log) : v.log[m].outcome = "ok"
                         THEN Emitted(v, collectionList)
                         ELSE [v EXCEPT !.collectionList = collectionList]]
     \/ inv' = [inv EXCEPT ![i] = Thrown(inv[i], n)]
  /\ UNCHANGED <<store, now, nextId>>

(***************************************************************************)
(* Inputs of generate_typescript_interfaces: a store whose collection      *)
(* "posts" has up to MaxFields fields of the twelve store types.           *)
(***************************************************************************)
StoreTypes == {"text", "number", "bool", "email", "url", "date", "select", "relation",
               "file", "json", "editor", "autodate"}

TypedField(type, required) == [name |-> "f_" \o type, type |-> type, required |-> required]

TypeStores ==
  LET \* One required field of each type (a relation without options among them);
      \* an optional text field; relation fields whose options name a target
      \* collection, an empty one, or none.
      TypedFields ==
        {TypedField(type, TRUE) : type \in StoreTypes}
        \cup {TypedField("text", FALSE)}
        \cup {[name |-> "owner", type |-> "relation", required |-> FALSE,
                options |-> [collectionId |-> id]] : id \in {"user_profiles", "_pb_users_auth_", "",
                                                              Undefined}}
      TypedFieldLists == UNION {[1..len -> TypedFields] : len \in 0..MaxFields}
  IN
  {[n \in {"posts", "user_profiles", "Legacy"} |->
      IF n = "posts"
      THEN [id |-> 1, fields |-> fields, rules |-> OldRules, records |-> <<>>]
      ELSE IF n = "user_profiles"
      THEN [id |-> 2, fields |-> <<TypedField("email", TRUE), TypedField("json", FALSE)>>,
            rules |-> OldRules, records |-> <<>>]
      ELSE [id |-> 3, rules |-> OldRules, records |-> <<>>]]
   : fields \in TypedFieldLists}

InterfacesCalls ==
  {[collections |-> [given |-> FALSE, names |-> <<>>]]}
  \cup {[collections |-> [given |-> TRUE, names |-> c]] :
          c \in {<<>>, <<"posts">>, <<"posts", "user_profiles">>, <<"user_profiles", "posts">>,
                 <<"Legacy", "posts">>, <<"posts", "ghost">>}}

InitTypes ==
  /\ store \in TypeStores
  /\ now = 1
  /\ nextId = 4
  /\ inv = [i \in Slots |-> Idle]

\* A client that calls generate_typescript_interfaces and waits for the result.
NextTypes ==
  \/ \E args \in InterfacesCalls :
       /\ \A j \in Slots : inv[j].pc = "idle"
       /\ CallGenerateTypescriptInterfaces(1, args)
  \/ \E i \in Slots : CollectionsGetListReturns(i)
  \/ \E i \in Slots : \E n \in 1..Len(inv[i].log) : CollectionsGetOneReturns(i, n)

SpecTypes == InitTypes /\ [][NextTypes]_vars

(***************************************************************************)
(* analyze_collection_data (lines 1050-1166).                              *)
(***************************************************************************)
JsonNull == <<"null">>

\* JSON.stringify of a value of a record.
JsonStringify(value) ==
  CASE value[1] = "num" -> ToString(value[2])
    [] value[1] = "str" -> "\"" \o value[2] \o "\""
    [] OTHER -> "null"

\* value < other, both numbers.
Less(value, other) == value[2] < other[2]

\* const { collection, options = {} } = args   (line 1052)
AnalysisOptionsOf(args) == IF "options" \in DOMAIN args THEN args.options ELSE NoOptions

\* options.sampleSize || 100   (line 1053)
DefaultSampleSize == 100

SampleSizeOf(options) ==
  IF "sampleSize" \in DOMAIN options /\ options.sampleSize # 0
  THEN options.sampleSize
  ELSE DefaultSampleSize

SelectedAlways(options, name) == TRUE

\* Lines 1086-1088: the field is not skipped.
Selected(options, name) ==
  ~("fields" \in DOMAIN options)
  \/ \E n \in 1..Len(options.fields) : options.fields[n] = name

AnalyzeValueFalsyBounds(field, fieldAnalysis, record) ==
  LET value == Get(record, field.name)
  IN  IF value \in {JsonNull, Undef} THEN fieldAnalysis
      ELSE [fieldAnalysis EXCEPT
              !.nonNullValues = @ + 1,
              !.uniqueValues = @ \cup {JsonStringify(value)},
              !.min = IF field.type # "number" THEN @
                      ELSE IF @ \in {JsonNull, Num(0)} \/ Less(value, @) THEN value ELSE @,
              !.max = IF field.type # "number" THEN @
                      ELSE IF @ \in {JsonNull, Num(0)} \/ Less(@, value) THEN value ELSE @]

\* Lines 1101-1116: one record's value of the field.
AnalyzeValue(field, fieldAnalysis, record) ==
  LET value == Get(record, field.name)
  IN  IF value \in {JsonNull, Undef} THEN fieldAnalysis
      ELSE [fieldAnalysis EXCEPT
              !.nonNullValues = @ + 1,
              !.uniqueValues = @ \cup {JsonStringify(value)},
              !.min = IF field.type # "number" THEN @
                      ELSE IF @ = JsonNull \/ Less(value, @) THEN value ELSE @,
              !.max = IF field.type # "number" THEN @
                      ELSE IF @ = JsonNull \/ Less(@, value) THEN value ELSE @]

\* Lines 1100-1117.
RECURSIVE AnalyzeValues(_, _, _)
AnalyzeValues(field, fieldAnalysis, items) ==
  IF items = <<>> THEN fieldAnalysis
  ELSE AnalyzeValues(field, AnalyzeValue(field, fieldAnalysis, Head(items)), Tail(items))

\* (nonNullValues / length * 100).toFixed(2): the rate in hundredths of a
\* percent, rounded to the nearest; 0 / 0 is NaN.
FillRate(nonNullValues, length) ==
  IF length = 0 THEN NaN
  ELSE Num((2 * 10000 * nonNullValues + length) \div (2 * length))

\* Lines 1120-1129: the profile as it is serialised (the set is removed).
ProcessedAnalysis(field, items) ==
  LET \* Lines 1090-1097.
      NewFieldAnalysis ==
        [name |-> field.name, type |-> field.type, nonNullValues |-> 0, uniqueValues |-> {},
         min |-> JsonNull, max |-> JsonNull]
      fieldAnalysis == AnalyzeValues(field, NewFieldAnalysis, items)
  IN  [name |-> fieldAnalysis.name, type |-> fieldAnalysis.type,
       nonNullValues |-> fieldAnalysis.nonNullValues,
       min |-> fieldAnalysis.min, max |-> fieldAnalysis.max,
       uniqueValueCount |-> Cardinality(fieldAnalysis.uniqueValues),
       fillRate |-> FillRate(fieldAnalysis.nonNullValues, Len(items))]

UniqueInsight(name) ==
  "Field '" \o name \o "' contains all unique values, consider using it as an identifier."

EmptyInsight(name) ==
  "Field '" \o name \o "' has no values. Consider removing it or ensuring it's populated."

\* records.items.length > 5   (line 1136)
IdentifierThreshold == 5

FieldInsightsFromThreshold(processedAnalysis, length) ==
  (IF processedAnalysis.uniqueValueCount = length /\ length >= IdentifierThreshold
   THEN <<UniqueInsight(processedAnalysis.name)>> ELSE <<>>)
  \o (IF processedAnalysis.nonNullValues = 0
      THEN <<EmptyInsight(processedAnalysis.name)>> ELSE <<>>)

\* Lines 1133-1147.
FieldInsights(processedAnalysis, length) ==
  (IF processedAnalysis.uniqueValueCount = length /\ length > IdentifierThreshold
   THEN <<UniqueInsight(processedAnalysis.name)>> ELSE <<>>)
  \o (IF processedAnalysis.nonNullValues = 0
      THEN <<EmptyInsight(processedAnalysis.name)>> ELSE <<>>)

\* Lines 1085-1148: the loop over the fields.
RECURSIVE AnalyzeFields(_, _, _, _)
AnalyzeFields(fields, items, options, analysis) ==
  IF fields = <<>> THEN analysis
  ELSE IF ~Selected(options, Head(fields).name)
  THEN AnalyzeFields(Tail(fields), items, options, analysis)
  ELSE LET processedAnalysis == ProcessedAnalysis(Head(fields), items)
       IN  AnalyzeFields(Tail(fields), items, options,
                         [analysis EXCEPT
                            !.fields = Append(@, processedAnalysis),
                            !.insights = @ \o FieldInsights(processedAnalysis, Len(items))])

AnalysisOfNoEarlyReturn(collection, collectionInfo, records, options) ==
  AnalyzeFields(FieldsOrNone(collectionInfo), records.items, options,
                [collectionName |-> collection, recordCount |-> records.totalItems,
                 fields |-> <<>>, insights |-> <<>>])

\* Lines 1062-1148: the analysis that is returned.
AnalysisOf(collection, collectionInfo, records, options) ==
  LET NoRecordsInsight == "No records available for analysis"
  IN
  LET analysis == [collectionName |-> collection, recordCount |-> records.totalItems,
                   fields |-> <<>>, insights |-> <<>>]
  IN  IF Len(records.items) = 0
      THEN [analysis EXCEPT !.insights = <<NoRecordsInsight>>]
      ELSE AnalyzeFields(FieldsOrNone(collectionInfo), records.items, options, analysis)

\* pb.collection(name).getList(1, perPage)
StoreGetList(st, name, perPage) ==
  [items |-> FirstPage(StoreFullList(st, name), perPage),
   totalItems |-> Len(st[name].records)]

\* Lines 1050-1056: the handler is entered and getOne is issued.
CallAnalyzeCollectionData(i, args) ==
  /\ inv[i].pc = "idle"
  /\ inv' = [inv EXCEPT ![i] =
               [Idle EXCEPT !.tool = "analyze_collection_data",
                            !.pc = "analyze.getOne",
                            !.args = args,
                            !.log = <<Call("collections.getOne", args.collection, 0)>>,
                            !.store0 = store,
                            !.result = "pending"]]
  /\ UNCHANGED <<store, now, nextId>>

\* Line 1056 returns; lines 1057-1059 issue getList.
AnalyzeGetOneReturns(i) ==
  /\ inv[i].pc = "analyze.getOne"
  /\ \/ /\ Exists(store, inv[i].args.collection)
        /\ inv' = [inv EXCEPT ![i] =
                     Issue([Settle(inv[i], "ok") EXCEPT
                              !.collectionInfo = StoreGetOne(store, inv[i].args.collection)],
                           "analyze.getList",
                           Call("records.getList", inv[i].args.collection,
                                SampleSizeOf(AnalysisOptionsOf(inv[i].args))))]
     \/ inv' = Fail(i)
  /\ UNCHANGED <<store, now, nextId>>

AnalyzeGetListReturnsWrites(i) ==
  /\ inv[i].pc = "analyze.getList"
  /\ \/ /\ Exists(store, inv[i].args.collection)
        /\ LET options == AnalysisOptionsOf(inv[i].args)
               records == StoreGetList(store, inv[i].args.collection, SampleSizeOf(options))
           IN  inv' = [inv EXCEPT ![i] =
                         [Settle(inv[i], "ok") EXCEPT
                            !.pc = "Done", !.result = "success", !.records = records,
                            !.output = AnalysisOf(inv[i].args.collection,
                                                  inv[i].collectionInfo, records, options)]]
        /\ store' = StoreCreateRecord(store, inv[i].args.collection, [id |-> Str("analysis")])
        /\ UNCHANGED <<now, nextId>>
     \/ /\ inv' = Fail(i)
        /\ UNCHANGED <<store, now, nextId>>

\* Lines 1057-1059 return; lines 1061-1157 analyse and return.
AnalyzeGetListReturns(i) ==
  /\ inv[i].pc = "analyze.getList"
  /\ \/ /\ Exists(store, inv[i].args.collection)
        /\ LET options == AnalysisOptionsOf(inv[i].args)
               records == StoreGetList(store, inv[i].args.collection, SampleSizeOf(options))
           IN  inv' = [inv EXCEPT ![i] =
                         [Settle(inv[i], "ok") EXCEPT
                            !.pc = "Done", !.result = "success", !.records = records,
                            !.output = AnalysisOf(inv[i].args.collection,
                                                  inv[i].collectionInfo, records, options)]]
     \/ inv' = Fail(i)
  /\ UNCHANGED <<store, now, nextId>>

(***************************************************************************)
(* Inputs of analyze_collection_data: the collection "products" with a     *)
(* text field sku and a number field qty, holding up to MaxSample records  *)
(* whose values follow a pattern per field.                                *)
(***************************************************************************)
ProfileStores ==
  LET \* 0, -1, 2, -3, 4, -5, ...: pairwise distinct, neither ascending nor descending.
      Zigzag(n) == IF n % 2 = 1 THEN n - 1 ELSE 1 - n
      QtyPatterns == {"distinct", "constant", "null", "first null", "pair"}
      QtyValue(pattern, n) ==
        CASE pattern = "distinct" -> Num(Zigzag(n))
          [] pattern = "constant" -> Num(7)
          [] pattern = "null" -> JsonNull
          [] pattern = "first null" -> IF n = 1 THEN JsonNull ELSE Num(Zigzag(n))
          [] pattern = "pair" -> IF n = 2 THEN Num(Zigzag(1)) ELSE Num(Zigzag(n))
      SkuPatterns == {"distinct", "same", "missing"}
      ProductRecord(sku, qty, n) ==
        IF sku = "missing"
        THEN [id |-> Str("r" \o ToString(n)), qty |-> QtyValue(qty, n)]
        ELSE [id |-> Str("r" \o ToString(n)),
              sku |-> IF sku = "distinct" THEN Str("s" \o ToString(n)) ELSE Str("s"),
              qty |-> QtyValue(qty, n)]
      ProductFields == <<[name |-> "sku", type |-> "text", required |-> TRUE],
                         [name |-> "qty", type |-> "number", required |-> FALSE]>>
  IN
  {[n \in {"products"} |->
      [id |-> 1, fields |-> ProductFields, rules |-> OldRules,
       records |-> [k \in 1..len |-> ProductRecord(sku, qty, k)]]]
   : len \in 0..MaxSample, sku \in SkuPatterns, qty \in QtyPatterns}

AnalysisCalls ==
  LET AnalysisOptions ==
        {NoOptions}
        \cup {[sampleSize |-> size] : size \in {0, IdentifierThreshold}}
        \cup {[fields |-> f] : f \in {<<>>, <<"qty">>, <<"sku", "ghost">>}}
        \cup {[sampleSize |-> IdentifierThreshold, fields |-> <<"qty">>]}
  IN
  {[collection |-> "products"], [collection |-> "ghost"]}
  \cup {[collection |-> "products", options |-> o] : o \in AnalysisOptions}

InitProfile ==
  /\ store \in ProfileStores
  /\ now = 1
  /\ nextId = 2
  /\ inv = [i \in Slots |-> Idle]

\* A client that calls analyze_collection_data and waits for the result.
NextProfile ==
  \/ \E args \in AnalysisCalls :
       /\ \A j \in Slots : inv[j].pc = "idle"
       /\ CallAnalyzeCollectionData(1, args)
  \/ \E i \in Slots : AnalyzeGetOneReturns(i)
  \/ \E i \in Slots : AnalyzeGetListReturns(i)

SpecProfile == InitProfile /\ [][NextProfile]_vars

(***************************************************************************)
(* The handler of tools/call (lines 796-856): every tool of the model and  *)
(* the default case of the switch.                                         *)
(***************************************************************************)
ToolNames ==
  {"generate_pb_schema", "generate_typescript_interfaces", "analyze_collection_data",
   "create_collection", "create_record", "list_records", "update_record", "delete_record",
   "authenticate_user", "create_user", "get_collection_schema", "delete_collection",
   "backup_database", "import_data", "migrate_collection", "query_collection",
   "manage_indexes"}

\* new McpError(ErrorCode.MethodNotFound, `Unknown tool: ${name}`)
MethodNotFound(name) ==
  [code |-> "MethodNotFound", message |-> [prefix |-> "Unknown tool: ", detail |-> name]]

\* Lines 838-842 and 844-847: the default case throws and the catch rethrows.
CallUnknownTool(i, name) ==
  /\ name \notin ToolNames
  /\ inv[i].pc = "idle"
  /\ inv' = [inv EXCEPT ![i] =
               [Idle EXCEPT !.tool = name,
                            !.pc = "Failed",
                            !.store0 = store,
                            !.result = "error",
                            !.error = MethodNotFound(name)]]
  /\ UNCHANGED <<store, now, nextId>>

ToolMigrateCalls ==
  ConcurrentCalls \cup {MigrateArgs("ghost", F1, NotGiven, Undefined, NoRuleArgs)}

ToolSchemaCalls ==
  {[sourceCode |-> Render(Declaration(<<>>, <<ProductExample>>)), options |-> options] :
     options \in {args.options : args \in SchemaCalls}}

InitTools ==
  LET \* Stores and calls of every tool, a few of each.
      ToolStores ==
        InitStores
        \cup {st \in TypeStores : Len(st["posts"].fields) <= 1}
        \cup {st \in ProfileStores : Len(st["products"].records) <= 1}
  IN
  /\ store \in ToolStores
  /\ now = 1
  /\ nextId = 4
  /\ inv = [i \in Slots |-> Idle]

\* A client that sends one call, to any tool name, and waits for its result.
NextTools ==
  LET \* Names no case of the switch matches.
      UnknownNames == {"drop_database", "Migrate_Collection", ""}
  IN
  \/ /\ \A j \in Slots : inv[j].pc = "idle"
     /\ \/ \E args \in ToolMigrateCalls, timestamp \in ClockValues :
             CallMigrateCollection(1, args, timestamp)
        \/ \E args \in ToolSchemaCalls : CallGeneratePbSchema(1, args)
        \/ \E args \in InterfacesCalls : CallGenerateTypescriptInterfaces(1, args)
        \/ \E args \in AnalysisCalls : CallAnalyzeCollectionData(1, args)
        \/ \E args \in CreateRecordCalls : CallCreateRecord(1, args)
        \/ \E name \in UnknownNames : CallUnknownTool(1, name)
  \/ \E i \in Slots : Step(i)
  \/ \E i \in Slots : CreateRecordToolReturns(i)
  \/ \E i \in Slots : CollectionsGetListReturns(i)
  \/ \E i \in Slots : \E n \in 1..Len(inv[i].log) : CollectionsGetOneReturns(i, n)
  \/ \E i \in Slots : AnalyzeGetOneReturns(i)
  \/ \E i \in Slots : AnalyzeGetListReturns(i)

SpecTools == InitTools /\ [][NextTools]_vars

(***************************************************************************)
(* A session: the client calls generate_pb_schema and keeps the answer     *)
(* (slot 1), then sends call after call, each when the one before was      *)
(* answered (slot 2).                                                      *)
(***************************************************************************)
\* Lines 796-856: the handler has returned or thrown, the answer is sent and
\* nothing of the invocation is kept.
Respond(i) ==
  /\ inv[i].pc \in Terminal
  /\ inv' = [inv EXCEPT ![i] = Idle]
  /\ UNCHANGED <<store, now, nextId>>

SessionSchemaCalls ==
  {args \in ToolSchemaCalls :
     ~args.options.given \/ (args.options.includeTimestamps = "true"
                             /\ args.options.includeAuthentication = Undefined)}

SessionMigrateCalls == {args \in ConcurrentCalls : args.dataTransforms.given}

SessionInterfacesCalls ==
  {args \in InterfacesCalls : args.collections.names \in {<<"posts">>, <<"posts", "ghost">>}}

SessionAnalysisCalls == {[collection |-> "posts"], [collection |-> "ghost"]}

InitSession ==
  /\ store \in {st \in InitStores : DOMAIN st = {"posts", "other"}}
  /\ now = 1
  /\ nextId = 4
  /\ inv = [i \in Slots |-> Idle]

NextSession ==
  \/ /\ \A j \in Slots : inv[j].pc = "idle"
     /\ \E args \in SessionSchemaCalls : CallGeneratePbSchema(1, args)
  \/ /\ inv[1].pc = "Done"
     /\ \/ \E args \in SessionMigrateCalls, timestamp \in ClockValues :
             /\ nextId <= MaxId
             /\ CallMigrateCollection(2, args, timestamp)
        \/ \E args \in SessionSchemaCalls : CallGeneratePbSchema(2, args)
        \/ \E args \in SessionInterfacesCalls : CallGenerateTypescriptInterfaces(2, args)
        \/ \E args \in SessionAnalysisCalls : CallAnalyzeCollectionData(2, args)
        \/ CallUnknownTool(2, "drop_database")
  \/ \E i \in Slots : Step(i)
  \/ \E i \in Slots : \E n \in 1..Len(inv[i].log) : CollectionsGetOneReturns(i, n)
  \/ \E i \in Slots : AnalyzeGetOneReturns(i)
  \/ \E i \in Slots : AnalyzeGetListReturns(i)
  \/ Respond(2)

SpecSession == InitSession /\ [][NextSession]_vars

(***************************************************************************)
(* Properties of migrate_collection.                                       *)
(***************************************************************************)
Migrations == {i \in Slots : inv[i].tool = "migrate_collection"}

Ops(log) == [n \in 1..Len(log) |-> log[n].op]

Source0(v) == v.store0[v.args.collection]

Entries(v) == IF v.args.dataTransforms.given THEN v.args.dataTransforms.entries ELSE <<>>

\* What the transforms should make of one source record, key by key: a key
\* named by an entry whose transform returns gets the returned value, every
\* other key keeps its value, and no other key appears.
EntryReturns(record, entry) == EvalTransform(entry[2], Get(record, entry[1])).ok

IsMigrated(record, entries, migrated) ==
  LET named(key) == {n \in 1..Len(entries) :
                       entries[n][1] = key /\ EntryReturns(record, entries[n])}
  IN  /\ DOMAIN migrated = DOMAIN record \cup {key \in TransformFields : named(key) # {}}
      /\ \A key \in DOMAIN migrated :
           IF key \in TransformFields /\ named(key) # {}
           THEN \E n \in named(key) :
                  migrated[key] = EvalTransform(entries[n][2], Get(record, key)).val
           ELSE migrated[key] = record[key]

\* C1: when a migration has returned successfully (and nothing else wrote to
\* the store meanwhile), no collection has the shadow name or the id of the
\* source, and the collection named finalName has the target fields, the
\* supplied rules, and one record per source record, each the source record
\* with the transforms applied.
C1_MigrationResult ==
  \A i \in Migrations :
    inv[i].pc = "Renamed" =>
      LET v == inv[i]
          source == Source0(v)
      IN  /\ ~Exists(store, v.tempName)
          /\ \A n \in DOMAIN store : store[n].id # source.id
          /\ Exists(store, v.finalName)
          /\ store[v.finalName].fields = v.args.fields
          /\ \A r \in RuleNames :
               store[v.finalName].rules[r] =
                 IF v.args[r] # Undefined THEN v.args[r] ELSE Null
          /\ Len(store[v.finalName].records) = Len(source.records)
          /\ \A n \in 1..Len(source.records) :
               IsMigrated(source.records[n], Entries(v), store[v.finalName].records[n])

C1_Witness ==
  \E i \in Migrations :
    /\ inv[i].pc = "Renamed"
    /\ Len(Source0(inv[i]).records) >= 2
    /\ Len(Entries(inv[i])) = 2
    /\ \E n \in 1..2 : ~EntryReturns(Source0(inv[i]).records[1], Entries(inv[i])[n])
    /\ \E n \in 1..2 : EntryReturns(Source0(inv[i]).records[1], Entries(inv[i])[n])

\* The calls of a complete migration of n records, in order.
FullOps(n) ==
  <<"collections.create", "getFullList">> \o [k \in 1..n |-> "records.create"]
    \o <<"collections.delete", "collections.update">>

\* C2: the store calls of a migration are issued in the order create shadow,
\* fetch list, create each record in source order, delete source, rename
\* shadow; a call is issued only after every earlier one succeeded (so the
\* delete comes after all the records are in the shadow, the rename after the
\* delete), and after a failure the migration is Failed and issues nothing.
C2_StateOrder ==
  \A i \in Migrations :
    LET v == inv[i]
        log == v.log
        n == Len(v.oldRecords)
    IN  /\ Len(log) >= 1
        /\ Len(log) <= n + 4
        /\ Ops(log) = SubSeq(FullOps(n), 1, Len(log))
        /\ \A m \in 1..(Len(log) - 1) : log[m].outcome = "ok"
        /\ \A m \in 1..Len(log) :
             log[m].op = "records.create" =>
               /\ log[m].n = m - 2
               /\ log[m].target = v.tempName
               /\ v.transformedRecords[m - 2] =
                    TransformRecord(v.oldRecords[m - 2], v.args.dataTransforms)
        /\ log[Len(log)].outcome = "pending" <=> v.pc \notin Terminal
        /\ log[Len(log)].outcome = "pending" => v.pc = log[Len(log)].op
        /\ log[Len(log)].outcome = "failed" <=> v.pc = "Failed"
        /\ v.pc = "Renamed" => Len(log) = n + 4
        /\ v.pc = "records.create" => Len(store[v.tempName].records) = v.k - 1
        /\ v.pc \in {"collections.delete"} =>
             /\ Exists(store, v.args.collection)
             /\ Len(store[v.tempName].records) = n

C2_CallOrder ==
  /\ []C2_StateOrder
  /\ [][\A i \in Slots :
          /\ inv[i].pc \in Terminal => inv'[i] = inv[i]
          /\ inv[i].tool = "migrate_collection" =>
               \/ inv'[i].log = inv[i].log
               \/ /\ Len(inv'[i].log) = Len(inv[i].log)
                  /\ inv'[i].pc \in Terminal
               \/ /\ Len(inv'[i].log) = Len(inv[i].log) + 1
                  /\ inv[i].log[Len(inv[i].log)].outcome = "pending"
                  /\ inv'[i].log[Len(inv[i].log)].outcome = "ok"]_vars

C2_Witness ==
  \E i \in Migrations :
    /\ inv[i].pc = "Renamed"
    /\ Len(inv[i].oldRecords) = 2
    /\ Ops(inv[i].log) = <<"collections.create", "getFullList", "records.create",
                           "records.create", "collections.delete", "collections.update">>

\* C3: if creating the shadow collection fails, the migration fails, the
\* store is as it was before the call, and no other call was issued.
C3_ShadowCreateFails ==
  \A i \in Migrations :
    inv[i].log[1].outcome = "failed" =>
      /\ inv[i].pc = "Failed"
      /\ inv[i].result = "error"
      /\ store = inv[i].store0
      /\ Ops(inv[i].log) = <<"collections.create">>
      /\ inv[i].oldRecords = <<>>

C3_Witness ==
  \E i \in Migrations :
    /\ inv[i].log[1].outcome = "failed"
    /\ Len(Source0(inv[i]).records) >= 1
    /\ ~Exists(store, inv[i].tempName)

\* C4: for every source record and every two distinct fields A and B of
\* dataTransforms, in either order: if the transform of A throws and the
\* transform of B returns, the migrated record has the source record's value
\* of A (or no A, if the source record had none) and the returned value of B.
C4_TransformIsolation ==
  \A i \in Migrations :
    LET v == inv[i]
        entries == Entries(v)
    IN  \A n \in 1..Len(v.transformedRecords), ea \in 1..Len(entries), eb \in 1..Len(entries) :
          LET record == v.oldRecords[n]
              migrated == v.transformedRecords[n]
              A == entries[ea][1]
              B == entries[eb][1]
          IN  (A # B /\ ~EntryReturns(record, entries[ea]) /\ EntryReturns(record, entries[eb]))
              => /\ (A \in DOMAIN migrated) = (A \in DOMAIN record)
                 /\ Get(migrated, A) = Get(record, A)
                 /\ B \in DOMAIN migrated
                 /\ migrated[B] = EvalTransform(entries[eb][2], Get(record, B)).val
                 /\ (v.pc = "Renamed" =>
                       /\ Get(store[v.finalName].records[n], A) = Get(record, A)
                       /\ Get(store[v.finalName].records[n], B) = migrated[B])

\* The transform of A throws and comes first; the transform of B changes B.
C4_Witness ==
  \E i \in Migrations :
    /\ inv[i].pc = "Renamed"
    /\ Len(Entries(inv[i])) = 2
    /\ Len(inv[i].oldRecords) >= 1
    /\ ~EntryReturns(inv[i].oldRecords[1], Entries(inv[i])[1])
    /\ EntryReturns(inv[i].oldRecords[1], Entries(inv[i])[2])
    /\ Get(inv[i].transformedRecords[1], Entries(inv[i])[2][1])
         # Get(inv[i].oldRecords[1], Entries(inv[i])[2][1])

\* C5: a throwing transform never fails the migration: a migration is Failed
\* only when a store call failed, every fetched record gets a transformed
\* record, and a migration whose store calls all succeed creates one record
\* per source record, deletes the source, renames the shadow and succeeds.
C5_TransformErrorsDoNotAbort ==
  \A i \in Migrations :
    LET v == inv[i]
        last == v.log[Len(v.log)]
    IN  /\ v.pc = "Failed" => last.outcome = "failed"
        /\ v.result = "error" => last.outcome = "failed"
        /\ Len(v.log) > 2 => Len(v.transformedRecords) = Len(v.oldRecords)
        /\ (last.outcome = "ok") =>
             /\ v.pc = "Renamed"
             /\ v.result = "success"
             /\ Ops(v.log) = FullOps(Len(Source0(v).records))
             /\ Len(store[v.finalName].records) = Len(Source0(v).records)
             /\ ~Exists(store, v.tempName)

\* Every transform throws on every record, and the migration succeeds.
C5_Witness ==
  \E i \in Migrations :
    /\ inv[i].pc = "Renamed"
    /\ Len(inv[i].oldRecords) = 2
    /\ Len(Entries(inv[i])) = 2
    /\ \A n \in 1..2, m \in 1..2 : ~EntryReturns(inv[i].oldRecords[n], Entries(inv[i])[m])

RenameIssued(v) == v.log[Len(v.log)].op = "collections.update"

\* C6 as stated: the final name is args.name whenever a name was supplied, and
\* the source name when none was.
C6_FinalNameAsStated ==
  \A i \in Migrations :
    RenameIssued(inv[i]) =>
      inv[i].finalName = IF inv[i].args.name # Undefined THEN inv[i].args.name
                         ELSE inv[i].args.collection

\* C6 amended: the final name is args.name whenever a non-empty name was
\* supplied, and the source name when no name or an empty name was supplied;
\* a rename that succeeds leaves the shadow collection under that name.
C6_FinalName ==
  \A i \in Migrations :
    LET v == inv[i]
        expected == IF v.args.name = Undefined \/ v.args.name = ""
                    THEN v.args.collection ELSE v.args.name
    IN  /\ RenameIssued(v) => v.finalName = expected
        /\ v.pc = "Renamed" =>
             /\ Exists(store, expected)
             /\ \A n \in DOMAIN v.store0 : v.store0[n].id # store[expected].id
             /\ store[expected].fields = v.args.fields

C6_Witness ==
  \E i \in Migrations :
    /\ inv[i].pc = "Renamed"
    /\ inv[i].args.name = ""
    /\ Exists(store, inv[i].args.collection)

InFlight(i) == inv[i].pc \notin {"idle"} \cup Terminal

\* C7: a tool call is handled to completion before the next is accepted: no
\* two migrations are in flight together, and while a migration is in flight
\* no other invocation issues a store call or gets one answered.
C7_OneCallAtATime ==
  /\ [](\A i, j \in Migrations : (InFlight(i) /\ InFlight(j)) => i = j)
  /\ [][\A i \in Migrations, j \in Slots :
          (InFlight(i) /\ j # i) => inv'[j].log = inv[j].log]_vars

\* C8: the configuration of the shadow collection contains a rule exactly
\* when the caller supplied it, with the caller's value (the empty string
\* too); a rule that was not supplied is absent, and the shadow collection
\* gets the store's default for it, not the source collection's rule.
C8_RulesOnlyWhenSupplied ==
  \A i \in Migrations :
    LET v == inv[i]
        config == v.collectionConfig
    IN  /\ config.name = v.tempName
        /\ config.fields = v.args.fields
        /\ \A r \in RuleNames :
             /\ (r \in DOMAIN config.rules) = (v.args[r] # Undefined)
             /\ v.args[r] # Undefined => config.rules[r] = v.args[r]
             /\ (v.args[r] = Undefined /\ v.log[1].outcome = "ok" /\ Exists(store, v.tempName))
                  => store[v.tempName].rules[r] = Null

\* One rule is the empty string, one is an expression, one is not supplied
\* while the source collection has a rule there.
C8_Witness ==
  \E i \in Migrations :
    /\ inv[i].log[1].outcome = "ok"
    /\ inv[i].args.listRule = ""
    /\ inv[i].args.viewRule \notin {Undefined, ""}
    /\ inv[i].args.deleteRule = Undefined
    /\ Source0(inv[i]).rules["deleteRule"] # Null
    /\ Exists(store, inv[i].tempName)

(***************************************************************************)
(* Properties of generate_pb_schema.                                       *)
(***************************************************************************)
SchemaRuns == {i \in Slots : inv[i].tool = "generate_pb_schema"}

\* The type blocks of the source text of invocation i, in input order.
Types(i) == InterfaceMatches(inv[i].args.sourceCode, 1)

AuthOn(i) == inv[i].args.options.given /\ inv[i].args.options.includeAuthentication = "true"

TimestampsOn(i) == inv[i].args.options.given /\ inv[i].args.options.includeTimestamps = "true"

\* The names that are user or users when case is ignored.
UserNames == {"user", "User", "users", "Users", "USERS"}

IsField(field, name, type, required) ==
  field = [name |-> name, type |-> type, required |-> required]

\* C9 as stated: with includeAuthentication, the field list of a type named
\* user or users ends with email and password.
C9_AuthFieldsLast ==
  \A i \in SchemaRuns :
    /\ Len(inv[i].output) = Len(Types(i))
    /\ \A n \in 1..Len(Types(i)) :
         LET fields == inv[i].output[n].schema
             len == Len(fields)
         IN  (AuthOn(i) /\ Types(i)[n].name \in UserNames) =>
               /\ len >= 2
               /\ IsField(fields[len - 1], "email", "email", TRUE)
               /\ IsField(fields[len], "password", "text", TRUE)

\* C9 amended: with includeAuthentication, the field list of a type named
\* user or users is the extracted fields, then email (required) and password
\* (required), then -- only when includeTimestamps is set -- the two timestamp
\* fields; for a type with any other name, or without includeAuthentication,
\* the extracted fields are followed by nothing but the timestamp fields.
C9_AuthFieldsAfterExtracted ==
  \A i \in SchemaRuns :
    /\ Len(inv[i].output) = Len(Types(i))
    /\ \A n \in 1..Len(Types(i)) :
         LET fields == inv[i].output[n].schema
             extracted == ExtractedFields(Types(i)[n].body)
             e == Len(extracted)
             rest == Len(fields) - e
         IN  /\ rest >= 0
             /\ SubSeq(fields, 1, e) = extracted
             /\ IF AuthOn(i) /\ Types(i)[n].name \in UserNames
                THEN /\ rest = IF TimestampsOn(i) THEN 4 ELSE 2
                     /\ IsField(fields[e + 1], "email", "email", TRUE)
                     /\ IsField(fields[e + 2], "password", "text", TRUE)
                     /\ \A m \in (e + 3)..Len(fields) : fields[m].type = "date"
                ELSE /\ rest = IF TimestampsOn(i) THEN 2 ELSE 0
                     /\ \A m \in (e + 1)..Len(fields) : fields[m].type = "date"

\* A type USERS with an extracted field, both options set: email and password
\* are followed by the timestamps.
C9_Witness ==
  \E i \in SchemaRuns :
    /\ AuthOn(i) /\ TimestampsOn(i)
    /\ Len(Types(i)) = 1
    /\ Types(i)[1].name = "USERS"
    /\ Len(ExtractedFields(Types(i)[1].body)) = 2
    /\ Len(inv[i].output[1].schema) = 6
    /\ inv[i].output[1].schema[3].name = "email"

\* C10: with includeTimestamps, the last two fields of every type are created
\* and updated, optional, of type date, whatever the name and whatever
\* includeAuthentication; without it (false, absent, or no options at all) the
\* field list is the extracted fields and the authentication fields only.
C10_TimestampsLast ==
  \A i \in SchemaRuns :
    /\ Len(inv[i].output) = Len(Types(i))
    /\ \A n \in 1..Len(Types(i)) :
         LET fields == inv[i].output[n].schema
             len == Len(fields)
             extracted == ExtractedFields(Types(i)[n].body)
             auth == IF AuthOn(i) /\ Types(i)[n].name \in UserNames THEN 2 ELSE 0
         IN  IF TimestampsOn(i)
             THEN /\ len = Len(extracted) + auth + 2
                  /\ IsField(fields[len - 1], "created", "date", FALSE)
                  /\ IsField(fields[len], "updated", "date", FALSE)
                  /\ SubSeq(fields, 1, Len(extracted)) = extracted
             ELSE /\ len = Len(extracted) + auth
                  /\ SubSeq(fields, 1, Len(extracted)) = extracted
                  /\ \A m \in (Len(extracted) + 1)..len :
                       fields[m].name \in {"email", "password"}

\* Two types in one text, one of them a user type, with includeTimestamps.
C10_Witness ==
  \E i \in SchemaRuns :
    /\ TimestampsOn(i) /\ AuthOn(i)
    /\ Len(Types(i)) = 2
    /\ Types(i)[1].name = "Product"
    /\ Types(i)[2].name = "user"
    /\ Len(inv[i].output[1].schema) = 3
    /\ Len(inv[i].output[2].schema) = 4
    /\ inv[i].output[2].schema[4].name = "updated"

\* The declaration whose text invocation i was given.
Rendered == {<<Render(decl), decl>> : decl \in Declarations}

DeclOf(i) == (CHOOSE d \in Rendered : d[1] = inv[i].args.sourceCode)[2]

\* The type names of the inputs in lower case.
LowerCased ==
  [name \in TypeNames \cup {"Users", "user"} |->
     IF name \in {"User", "user"} THEN "user"
     ELSE IF name \in {"USERS", "Users", "users"} THEN "users"
     ELSE IF name = "Product" THEN "product"
     ELSE "superuser"]

\* The number of fields appended to the extracted fields of a type.
AppendedTo(i, name) ==
  (IF AuthOn(i) /\ name \in UserNames THEN 2 ELSE 0) + (IF TimestampsOn(i) THEN 2 ELSE 0)

IsOptional(kind) == kind = "optional number"

RECURSIVE FieldsDeclared(_)
FieldsDeclared(members) ==
  IF members = <<>> THEN <<>>
  ELSE LET m == Head(members)
       IN  CASE m.kind = "union" -> FieldsDeclared(Tail(members))
             [] m.kind = "object" -> <<[name |-> "x", required |-> TRUE]>>
             [] OTHER -> <<[name |-> m.name, required |-> ~IsOptional(m.kind)]>>
                         \o FieldsDeclared(Tail(members))

ProductCollection ==
  [name |-> "product",
   schema |-> <<[name |-> "name", type |-> "text", required |-> TRUE],
                [name |-> "price", type |-> "number", required |-> TRUE],
                [name |-> "tags", type |-> "json", required |-> TRUE],
                [name |-> "created", type |-> "date", required |-> FALSE],
                [name |-> "updated", type |-> "date", required |-> FALSE]>>]

StatedType(kind) ==
  CASE kind \in {"string[]", "number[]", "boolean[]", "Date[]", "Category[]"} -> "json"
    [] kind = "string" -> "text"
    [] kind \in {"number", "optional number"} -> "number"
    [] kind = "boolean" -> "bool"
    [] kind = "Date" -> "date"

\* C12: every array member has type json, whatever its element kind, and the
\* non-array string, number, boolean and Date members have types text, number,
\* bool and date.
C12_ArraysAreJson ==
  \A i \in SchemaRuns :
    LET blocks == DeclOf(i).blocks
    IN  \A n \in 1..Len(blocks) :
          (Len(blocks[n].members) = 1 /\ blocks[n].members[1].kind \in (TypeMapKinds \cup {"optional number"}) \ {"Category"})
            => /\ Len(inv[i].output[n].schema) >= 1
               /\ inv[i].output[n].schema[1].type = StatedType(blocks[n].members[1].kind)

(***************************************************************************)
(* Properties of generate_typescript_interfaces.                           *)
(***************************************************************************)
InterfacesRuns ==
  {i \in Slots : inv[i].tool = "generate_typescript_interfaces" /\ inv[i].pc = "Done"}

\* The names of the collections whose interfaces invocation i emits: the
\* names it was given or, when it was given none, the names the store listed.
Listed(i) ==
  IF inv[i].args.collections.given /\ inv[i].args.collections.names # <<>>
  THEN inv[i].args.collections.names
  ELSE [n \in 1..Len(inv[i].collectionList) |-> inv[i].collectionList[n].name]

\* The fields of a collection as the store held them when i was called.
SchemaFields(i, name) ==
  IF "fields" \in DOMAIN inv[i].store0[name] THEN inv[i].store0[name].fields ELSE <<>>

\* The number of lines before the interface of the n-th listed collection.
RECURSIVE LinesBefore(_, _)
LinesBefore(i, n) ==
  IF n = 1 THEN 1 ELSE LinesBefore(i, n - 1) + Len(SchemaFields(i, Listed(i)[n - 1])) + 5

TargetOf(field) ==
  IF "options" \in DOMAIN field /\ field.options.collectionId \notin {Undefined, ""}
  THEN field.options.collectionId
  ELSE ""

\* The type the backward map is stated to give a field.
StatedTsType(field) ==
  CASE field.type \in {"text", "editor", "url", "email"} -> "string"
    [] field.type = "number" -> "number"
    [] field.type = "bool" -> "boolean"
    [] field.type = "date" -> "string"
    [] field.type = "json" -> "any"
    [] field.type = "relation" ->
         IF TargetOf(field) = "user_profiles" THEN "string | UserProfiles"
         ELSE IF TargetOf(field) = "_pb_users_auth_" THEN "string | PbUsersAuth"
         ELSE "string"
    [] field.type \in {"select", "file", "autodate"} -> "string"

\* C13: the member emitted for a field of any of the twelve store types has
\* the stated type: string for text, editor, url, email, date, select, file
\* and autodate, number for number, boolean for bool, any for json, and for
\* relation string, or string | Target when the field names a target; no
\* field makes the call fail.
C13_BackwardMap ==
  \A i \in Slots :
    inv[i].tool = "generate_typescript_interfaces" =>
      /\ (inv[i].pc = "Failed" => \E n \in 1..Len(inv[i].log) : inv[i].log[n].outcome = "failed")
      /\ inv[i].pc = "Done" =>
           \A n \in 1..Len(Listed(i)) :
             LET fields == SchemaFields(i, Listed(i)[n])
             IN  \A m \in 1..Len(fields) :
                   /\ fields[m].type \in StoreTypes
                   /\ LinesBefore(i, n) + 2 + m <= Len(inv[i].output)
                   /\ inv[i].output[LinesBefore(i, n) + 2 + m].type = StatedTsType(fields[m])

\* A relation field with a target and a date field have been emitted.
C13_Witness ==
  \E i \in InterfacesRuns :
    /\ Listed(i) = <<"posts">>
    /\ Len(SchemaFields(i, "posts")) = 2
    /\ SchemaFields(i, "posts")[1].type = "relation"
    /\ TargetOf(SchemaFields(i, "posts")[1]) = "_pb_users_auth_"
    /\ SchemaFields(i, "posts")[2].type = "date"
    /\ inv[i].output[4].type = "string | PbUsersAuth"
    /\ inv[i].output[5].type = "string"

\* The interface name of each collection of the inputs.
TypeNameOf(name) ==
  CASE name = "posts" -> "Posts"
    [] name = "user_profiles" -> "UserProfiles"
    [] name = "Legacy" -> "Legacy"

\* C14: the emitted text holds one interface per listed collection, in the
\* order of the list; each has id: string first, then one member per field in
\* the order of the schema, optional exactly when required is false, then
\* created: string and updated: string; nothing else is emitted.
C14_EmittedInterfaces ==
  \A i \in InterfacesRuns :
    LET out == inv[i].output
        list == Listed(i)
    IN  /\ Len(out) = LinesBefore(i, Len(list) + 1)
        /\ out[1] = HeaderLine
        /\ \A n \in 1..Len(list) :
             LET fields == SchemaFields(i, list[n])
                 at == LinesBefore(i, n)
                 last == at + Len(fields) + 5
             IN  /\ out[at + 1] = [line |-> "interface", name |-> TypeNameOf(list[n])]
                 /\ out[at + 2] = [line |-> "member", name |-> "id", optional |-> FALSE,
                                   type |-> "string"]
                 /\ \A m \in 1..Len(fields) :
                      /\ out[at + 2 + m].line = "member"
                      /\ out[at + 2 + m].name = fields[m].name
                      /\ out[at + 2 + m].optional = (fields[m].required = FALSE)
                 /\ out[last - 2] = [line |-> "member", name |-> "created", optional |-> FALSE,
                                     type |-> "string"]
                 /\ out[last - 1] = [line |-> "member", name |-> "updated", optional |-> FALSE,
                                     type |-> "string"]
                 /\ out[last] = [line |-> "end"]

\* Two collections were asked for, the second with an optional and a required
\* field.
C14_Witness ==
  \E i \in InterfacesRuns :
    /\ Listed(i) = <<"user_profiles", "posts">>
    /\ inv[i].args.collections.given
    /\ Len(SchemaFields(i, "posts")) = 2
    /\ SchemaFields(i, "posts")[1].required = FALSE
    /\ SchemaFields(i, "posts")[2].required = TRUE
    /\ Len(inv[i].output) = 15
    /\ inv[i].output[9].name = "Posts"
    /\ inv[i].output[11].optional

(***************************************************************************)
(* Properties of analyze_collection_data.                                  *)
(***************************************************************************)
AnalysisRuns ==
  {i \in Slots : inv[i].tool = "analyze_collection_data" /\ inv[i].pc = "Done"}

\* The records invocation i sampled.
Sample(i) == inv[i].records.items

\* The fields of the schema of the analysed collection.
Schema(i) == SchemaFields(i, inv[i].args.collection)

\* options.fields was given and does not name the field.
Excluded(i, name) ==
  /\ "options" \in DOMAIN inv[i].args
  /\ "fields" \in DOMAIN inv[i].args.options
  /\ \A n \in 1..Len(inv[i].args.options.fields) : inv[i].args.options.fields[n] # name

\* The non-null values the sampled records have for a field.
ValuesOf(i, name) ==
  {Get(Sample(i)[n], name) : n \in 1..Len(Sample(i))} \ {JsonNull, Undef}

\* How many times a text is among the insights.
Times(i, text) ==
  Cardinality({n \in 1..Len(inv[i].output.insights) : inv[i].output.insights[n] = text})

\* The profiles of a field in the result.
Profiles(i, name) ==
  {n \in 1..Len(inv[i].output.fields) : inv[i].output.fields[n].name = name}

\* C15: when no record is sampled, the result holds the one insight "No
\* records available for analysis" and no field, whatever the schema and the
\* options.
C15_EmptySample ==
  \A i \in AnalysisRuns :
    Len(Sample(i)) = 0 =>
      /\ inv[i].output.insights = <<"No records available for analysis">>
      /\ inv[i].output.fields = <<>>

\* An empty collection with two fields was analysed, with options.
C15_Witness ==
  \E i \in AnalysisRuns :
    /\ Len(Sample(i)) = 0
    /\ Len(Schema(i)) = 2
    /\ "options" \in DOMAIN inv[i].args
    /\ "fields" \in DOMAIN inv[i].args.options
    /\ Len(inv[i].output.insights) = 1

\* C16: the identifier insight of a selected field is emitted exactly when
\* more than 5 records are sampled and the non-null values of the field are
\* as many as the sampled records; with 5 records or fewer it is not emitted.
C16_IdentifierCandidate ==
  \A i \in AnalysisRuns :
    Len(Sample(i)) > 0 =>
      \A f \in 1..Len(Schema(i)) :
        LET name == Schema(i)[f].name
            text == "Field '" \o name
                    \o "' contains all unique values, consider using it as an identifier."
        IN  ~Excluded(i, name) =>
              /\ Times(i, text) \in {0, 1}
              /\ Times(i, text) = 1 <=>
                   (Len(Sample(i)) > 5 /\ Cardinality(ValuesOf(i, name)) = Len(Sample(i)))
              /\ Len(Sample(i)) <= 5 => Times(i, text) = 0

\* Six records with pairwise distinct sku were sampled: sku is a candidate,
\* and qty, which has a null, is not.
C16_Witness ==
  \E i \in AnalysisRuns :
    /\ Len(Sample(i)) = 6
    /\ Cardinality(ValuesOf(i, "sku")) = 6
    /\ Cardinality(ValuesOf(i, "qty")) = 5
    /\ inv[i].output.insights =
         <<"Field 'sku' contains all unique values, consider using it as an identifier.">>

\* C17: with a non-empty sample, every selected field has one profile and
\* has the empty insight, once, exactly when none of the sampled records has
\* a non-null value for it; an excluded field has no profile and no insight.
C17_EmptyField ==
  \A i \in AnalysisRuns :
    Len(Sample(i)) > 0 =>
      /\ \A f \in 1..Len(Schema(i)) :
           LET name == Schema(i)[f].name
               empty == "Field '" \o name
                        \o "' has no values. Consider removing it or ensuring it's populated."
               unique == "Field '" \o name
                         \o "' contains all unique values, consider using it as an identifier."
           IN  IF Excluded(i, name)
               THEN Profiles(i, name) = {} /\ Times(i, empty) = 0 /\ Times(i, unique) = 0
               ELSE /\ Cardinality(Profiles(i, name)) = 1
                    /\ Times(i, empty) = IF ValuesOf(i, name) = {} THEN 1 ELSE 0
      /\ \A n \in 1..Len(inv[i].output.fields) :
           \E f \in 1..Len(Schema(i)) : inv[i].output.fields[n].name = Schema(i)[f].name
      /\ Len(inv[i].output.insights) <= 2 * Len(inv[i].output.fields)

\* qty, selected, is null in all three sampled records, and sku is excluded.
C17_Witness ==
  \E i \in AnalysisRuns :
    /\ Len(Sample(i)) = 3
    /\ Excluded(i, "sku") /\ ~Excluded(i, "qty")
    /\ ValuesOf(i, "qty") = {}
    /\ inv[i].output.insights =
         <<"Field 'qty' has no values. Consider removing it or ensuring it's populated.">>
    /\ Len(inv[i].output.fields) = 1

\* C18: the profile of a selected number field with a non-null sampled value
\* has as min the smallest and as max the largest of the non-null sampled
\* values; the profile of any other field has neither.
C18_MinMax ==
  \A i \in AnalysisRuns :
    \A n \in 1..Len(inv[i].output.fields) :
      LET profile == inv[i].output.fields[n]
          values == ValuesOf(i, profile.name)
      IN  IF profile.type = "number" /\ values # {}
          THEN /\ profile.min \in values /\ profile.max \in values
               /\ \A v \in values : profile.min[2] <= v[2] /\ v[2] <= profile.max[2]
          ELSE profile.min = JsonNull /\ profile.max = JsonNull

\* Four records 0, -1, 2, -3: min is -3 and max is 2; sku has neither.
C18_Witness ==
  \E i \in AnalysisRuns :
    /\ Len(Sample(i)) = 4
    /\ Len(inv[i].output.fields) = 2
    /\ inv[i].output.fields[1].name = "sku" /\ inv[i].output.fields[1].min = JsonNull
    /\ inv[i].output.fields[2].name = "qty"
    /\ Cardinality(ValuesOf(i, "qty")) = 4
    /\ inv[i].output.fields[2].min = Num(0 - 3)
    /\ inv[i].output.fields[2].max = Num(2)

(***************************************************************************)
(* Properties of the handler.                                              *)
(***************************************************************************)
StoreTools == {"generate_typescript_interfaces", "analyze_collection_data", "migrate_collection"}

FailedCalls(i) == {n \in 1..Len(inv[i].log) : inv[i].log[n].outcome = "failed"}

C20_RecordCreateFails ==
  \A i \in Slots :
    LET v == inv[i]
        last == Len(v.log)
    IN  (/\ v.tool = "migrate_collection"
         /\ last > 0
         /\ v.log[last].op = "records.create"
         /\ v.log[last].outcome = "failed") =>
          LET k == v.log[last].n
          IN  /\ v.pc = "Failed"
              /\ v.result = "error"
              /\ v.output = Idle.output
              /\ Exists(store, v.tempName)
              /\ store[v.tempName].records =
                   [n \in 1..(k - 1) |-> StoreWrite(v.transformedRecords[n])]
              /\ Exists(store, v.args.collection)
              /\ store[v.args.collection] = v.store0[v.args.collection]
              /\ last = k + 2
              /\ \A n \in 1..last :
                   /\ v.log[n].op \notin {"collections.delete", "collections.update"}
                   /\ n > 2 => (v.log[n].op = "records.create" /\ v.log[n].n = n - 2)
                   /\ n < last => v.log[n].outcome = "ok"

\* The create of the second record has failed: the shadow holds the first.
C20_Witness ==
  \E i \in Slots :
    /\ inv[i].tool = "migrate_collection"
    /\ inv[i].pc = "Failed"
    /\ Len(inv[i].log) = 4
    /\ inv[i].log[4].op = "records.create"
    /\ inv[i].log[4].n = 2
    /\ inv[i].log[4].outcome = "failed"
    /\ Len(store[inv[i].tempName].records) = 1
    /\ Len(store[inv[i].args.collection].records) = 2

(***************************************************************************)
(* Properties of a migration that fails at the swap.                       *)
(***************************************************************************)
\* The records a shadow collection holds when every transformed record was created.
Copied(v) == [n \in 1..Len(v.transformedRecords) |-> StoreWrite(v.transformedRecords[n])]

\* C21: when the delete of the source collection fails, the migration has
\* failed; the shadow collection is in the store under its shadow name and
\* holds one transformed record per record of the source, in order; the
\* source collection is as it was when the migration was called, records
\* included; and no rename is issued.
C21_DeleteFails ==
  \A i \in Slots :
    LET v == inv[i]
        last == Len(v.log)
    IN  (/\ v.tool = "migrate_collection"
         /\ \E n \in 1..last : /\ v.log[n].op = "collections.delete"
                               /\ v.log[n].outcome = "failed") =>
          /\ v.pc = "Failed"
          /\ v.result = "error"
          /\ v.output = Idle.output
          /\ v.log[last].op = "collections.delete"
          /\ Exists(store, v.tempName)
          /\ store[v.tempName].records = Copied(v)
          /\ Len(store[v.tempName].records) = Len(v.store0[v.args.collection].records)
          /\ Exists(store, v.args.collection)
          /\ store[v.args.collection] = v.store0[v.args.collection]
          /\ \A n \in 1..last : v.log[n].op # "collections.update"

\* The delete has failed after two records were copied.
C21_Witness ==
  \E i \in Slots :
    /\ inv[i].tool = "migrate_collection"
    /\ inv[i].pc = "Failed"
    /\ inv[i].log[Len(inv[i].log)].op = "collections.delete"
    /\ inv[i].log[Len(inv[i].log)].outcome = "failed"
    /\ Len(store[inv[i].tempName].records) = 2

\* C22: when the rename fails after the source collection was deleted, the
\* migration has failed with an error and nothing was done after it: the
\* rename is the last call issued, no collection has the name of the source,
\* the shadow collection is in the store under its shadow name and holds
\* every copied record, and every other collection is as it was.
C22_RenameFails ==
  \A i \in Slots :
    LET v == inv[i]
        last == Len(v.log)
    IN  (/\ v.tool = "migrate_collection"
         /\ \E n \in 1..last : /\ v.log[n].op = "collections.update"
                               /\ v.log[n].outcome = "failed") =>
          /\ v.pc = "Failed"
          /\ v.result = "error"
          /\ v.error.code = "InternalError"
          /\ v.output = Idle.output
          /\ v.log[last].op = "collections.update"
          /\ v.log[last - 1].op = "collections.delete"
          /\ v.log[last - 1].outcome = "ok"
          /\ ~Exists(store, v.args.collection)
          /\ Exists(store, v.tempName)
          /\ store[v.tempName].records = Copied(v)
          /\ Len(store[v.tempName].records) = Len(v.store0[v.args.collection].records)
          /\ DOMAIN store = (DOMAIN v.store0 \ {v.args.collection}) \cup {v.tempName}
          /\ \A name \in DOMAIN store \ {v.tempName} : store[name] = v.store0[name]

\* The rename to the name of a collection that exists has failed, after one
\* record or more was copied.
C22_Witness ==
  \E i \in Slots :
    /\ inv[i].tool = "migrate_collection"
    /\ inv[i].pc = "Failed"
    /\ inv[i].log[Len(inv[i].log)].op = "collections.update"
    /\ inv[i].finalName = "other"
    /\ Exists(store, "other")
    /\ Len(store[inv[i].tempName].records) >= 1

(***************************************************************************)
(* Properties of the shadow name.                                          *)
(***************************************************************************)
\* C23: the shadow name a migration chooses is the name of no collection the
\* store holds when it is chosen, and no two migrations choose the same
\* shadow name (the clock never goes backwards in any behaviour).
C23_ShadowNameFresh ==
  /\ \A i \in Migrations : ~Exists(inv[i].store0, inv[i].tempName)
  /\ \A i, j \in Migrations : i # j => inv[i].tempName # inv[j].tempName

(***************************************************************************)
(* Properties of generate_pb_schema: names that occur twice.               *)
(***************************************************************************)
\* The places of a field list where the field has the given name.
Places(fields, name) == {m \in 1..Len(fields) : fields[m].name = name}

\* The names the options of invocation i append to a type of the given name.
AppendedNames(i, name) ==
  (IF AuthOn(i) /\ name \in UserNames THEN {"email", "password"} ELSE {})
  \cup (IF TimestampsOn(i) THEN {"created", "updated"} ELSE {})

\* C24: no field name is removed.  Every extracted field of a type is kept,
\* in place; a name the options append is appended once even when an
\* extracted field has it, so that a name extracted once is in the list
\* twice, the extracted field before the appended one; a name the options do
\* not append is in the list as often as it was extracted.
C24_NoDeduplication ==
  \A i \in SchemaRuns :
    LET blocks == DeclOf(i).blocks
    IN  \A n \in 1..Len(blocks) :
          LET declared == FieldsDeclared(blocks[n].members)
              e == Len(declared)
              fields == inv[i].output[n].schema
          IN  /\ Len(fields) >= e
              /\ \A m \in 1..e : fields[m].name = declared[m].name
              /\ \A name \in {"email", "password", "created", "updated"} :
                   LET extracted == Places(declared, name)
                       all == Places(fields, name)
                   IN  IF name \in AppendedNames(i, blocks[n].name)
                       THEN /\ Cardinality(all) = Cardinality(extracted) + 1
                            /\ extracted \subseteq all
                            /\ \A m \in all \ extracted : m > e
                       ELSE all = extracted

\* A type users that declares password and updated, with both options: the
\* list is password, updated, email, password, created, updated.
C24_Witness ==
  \E i \in SchemaRuns :
    /\ AuthOn(i) /\ TimestampsOn(i)
    /\ DeclOf(i).blocks = <<BlockDecl("users", <<MemberDecl("string", "password"),
                                                  MemberDecl("Date", "updated")>>)>>
    /\ Places(inv[i].output[1].schema, "password") = {1, 4}
    /\ Places(inv[i].output[1].schema, "updated") = {2, 6}

(***************************************************************************)
(* Properties of generate_pb_schema: members that are not recognised.      *)
(***************************************************************************)
\* The members of a block whose syntax is recognised: name[?]: word[[]];
Recognised(members) ==
  LET IsRecognised(m) == m.kind \notin {"union", "object"}
  IN  SelectSeq(members, IsRecognised)

\* C25: the extraction raises no error, and the extracted fields of a block
\* are its recognised members, each of them, in declaration order: a member
\* that is not recognised gives no field and takes none away.
C25_RecognisedMembersKept ==
  \A i \in SchemaRuns :
    LET blocks == DeclOf(i).blocks
        out == inv[i].output
    IN  /\ inv[i].result = "success"
        /\ Len(out) = Len(blocks)
        /\ \A n \in 1..Len(blocks) :
             LET recognised == Recognised(blocks[n].members)
                 fields == out[n].schema
             IN  /\ Len(fields) = Len(recognised) + AppendedTo(i, blocks[n].name)
                 /\ \A m \in 1..Len(recognised) : fields[m].name = recognised[m].name

ReadOnlyTools ==
  {"generate_pb_schema", "generate_typescript_interfaces", "analyze_collection_data"}

\* C27: no step of generate_pb_schema, generate_typescript_interfaces or
\* analyze_collection_data changes the store, whether the call succeeds or
\* fails, so the store is the same before and after any sequence of them;
\* every step that changes the store is a step of migrate_collection.
C27_ReadOnlyTools ==
  /\ [][\A i \in Slots :
          ((inv'[i].pc # inv[i].pc \/ inv'[i].log # inv[i].log)
           /\ inv'[i].tool \in ReadOnlyTools) => DOMAIN store' = DOMAIN store /\ store' = store]_vars
  /\ [][(DOMAIN store' # DOMAIN store \/ store' # store) =>
          \E i \in Slots : /\ inv'[i].pc # inv[i].pc \/ inv'[i].log # inv[i].log
                           /\ inv[i].tool = "migrate_collection"]_vars
  /\ [](inv[2].tool \in ReadOnlyTools =>
          DOMAIN store = DOMAIN inv[2].store0 /\ store = inv[2].store0)

\* After a migration, a call of generate_typescript_interfaces has failed at
\* one of its two reads and left the store as it found it.
C27_Witness ==
  /\ inv[2].tool = "generate_typescript_interfaces"
  /\ inv[2].result = "error"
  /\ \E n \in 1..Len(inv[2].log) : inv[2].log[n].outcome = "ok"
  /\ nextId > 4
  /\ store = inv[2].store0

(***************************************************************************)
(* Properties of a migration: the records.                                 *)
(***************************************************************************)
\* The collection holds one record per record of the source of migration v,
\* in order, each the source record with the transforms applied.
HoldsMigrated(v, name) ==
  /\ Exists(store, name)
  /\ Len(store[name].records) = Len(Source0(v).records)
  /\ \A n \in 1..Len(Source0(v).records) :
       IsMigrated(Source0(v).records[n], Entries(v), store[name].records[n])

\* The source collection of migration v is in the store as it was at the call.
SourceKept(v) ==
  /\ Exists(store, v.args.collection)
  /\ store[v.args.collection].id = Source0(v).id
  /\ store[v.args.collection].records = Source0(v).records

\* C28: in every state of a migration of a collection that existed at the
\* call, whichever store call failed, the source collection is still in the
\* store with every record it held, or the shadow collection, or after the
\* rename the final collection, holds one transformed record per record of
\* the source; and the step that deletes the source is taken only when the
\* shadow holds one transformed record per record of the source.
C28_NoRecordLost ==
  /\ [](\A i \in Migrations :
          Exists(inv[i].store0, inv[i].args.collection) =>
            \/ SourceKept(inv[i])
            \/ HoldsMigrated(inv[i], inv[i].tempName)
            \/ inv[i].pc = "Renamed" /\ HoldsMigrated(inv[i], inv[i].finalName))
  /\ [][\A i \in Migrations :
          (SourceKept(inv[i]) /\ ~SourceKept(inv[i])') =>
            /\ HoldsMigrated(inv[i], inv[i].tempName)
            /\ HoldsMigrated(inv[i], inv[i].tempName)']_vars

\* The source is gone and the rename has failed: the shadow holds the two
\* records, one of them with a transform that threw.
C28_Witness ==
  \E i \in Migrations :
    /\ inv[i].pc = "Failed"
    /\ Exists(inv[i].store0, inv[i].args.collection)
    /\ Len(Source0(inv[i]).records) = 2
    /\ ~Exists(store, inv[i].args.collection)
    /\ HoldsMigrated(inv[i], inv[i].tempName)
    /\ \E n \in 1..Len(Entries(inv[i])) :
         ~EntryReturns(Source0(inv[i]).records[2], Entries(inv[i])[n])

(***************************************************************************)
(* Properties of the transforms.                                           *)
(***************************************************************************)
\* The migrations that have read and transformed the records of the source.
Transformed == {i \in Migrations : Len(inv[i].log) >= 2 /\ inv[i].log[2].outcome = "ok"}

Reverse(seq) == [n \in 1..Len(seq) |-> seq[Len(seq) + 1 - n]]

Named(entries) == {entries[n][1] : n \in 1..Len(entries)}

\* What C29 says of the keys no entry names and of the entries whose field the
\* record has: a key that is not named keeps its value (the id and the system
\* key collectionName too); a transform that returns gives its field the
\* value it returns for the value the source record has; and the entries in
\* the reverse order give the same record.
KeysCarried(record, entries, migrated) ==
  /\ \A key \in DOMAIN record \ Named(entries) :
       key \in DOMAIN migrated /\ migrated[key] = record[key]
  /\ {"id", "collectionName"} \subseteq DOMAIN migrated
  /\ \A n \in 1..Len(entries) :
       (entries[n][1] \in DOMAIN record /\ EntryReturns(record, entries[n])) =>
         migrated[entries[n][1]] = EvalTransform(entries[n][2], record[entries[n][1]]).val
  /\ migrated = TransformRecord(record, [given |-> TRUE, entries |-> Reverse(entries)])

\* C29 as stated: besides, a transform for a field the record does not have
\* is given the undefined value and adds the field.
C29_AbsentFieldAdded ==
  \A i \in Transformed :
    \A n \in 1..Len(inv[i].oldRecords) :
      LET record == inv[i].oldRecords[n]
          migrated == inv[i].transformedRecords[n]
          entries == Entries(inv[i])
      IN  /\ KeysCarried(record, entries, migrated)
          /\ \A m \in 1..Len(entries) :
               entries[m][1] \notin DOMAIN record =>
                 /\ entries[m][1] \in DOMAIN migrated
                 /\ migrated[entries[m][1]] = EvalTransform(entries[m][2], Undef).val

\* C29 amended: a transform for a field the record does not have is given
\* the undefined value; it adds the field, with the value it returns, when it
\* returns, and adds nothing when it throws.  The keys of the migrated record
\* are those of the source record and the fields so added.
C29_AbsentFieldAddedOnReturn ==
  \A i \in Transformed :
    \A n \in 1..Len(inv[i].oldRecords) :
      LET record == inv[i].oldRecords[n]
          migrated == inv[i].transformedRecords[n]
          entries == Entries(inv[i])
      IN  /\ KeysCarried(record, entries, migrated)
          /\ \A m \in 1..Len(entries) :
               entries[m][1] \notin DOMAIN record =>
                 IF EvalTransform(entries[m][2], Undef).ok
                 THEN /\ entries[m][1] \in DOMAIN migrated
                      /\ migrated[entries[m][1]] = EvalTransform(entries[m][2], Undef).val
                 ELSE entries[m][1] \notin DOMAIN migrated
          /\ DOMAIN migrated \subseteq DOMAIN record \cup Named(entries)

\* A record without b was migrated with a transform of a and a transform of
\* b that returns: a is transformed, b is added, the id is kept.
C29_Witness ==
  \E i \in Transformed :
    \E n \in 1..Len(inv[i].oldRecords) :
      LET record == inv[i].oldRecords[n]
          migrated == inv[i].transformedRecords[n]
      IN  /\ Entries(inv[i]) = <<<<"b", "oldValue + 1">>, <<"a", "oldValue + 1">>>>
          /\ "b" \notin DOMAIN record
          /\ migrated["b"] = NaN
          /\ migrated["a"] = Num(record["a"][2] + 1)
          /\ migrated["id"] = record["id"]

(***************************************************************************)
(* Properties of a migration whose source cannot be read.                  *)
(***************************************************************************)
\* C30: the read of the source is the second call, issued when the shadow
\* collection has been created.  When it fails, as it does when no
\* collection has the name of the source, the migration has failed; the
\* shadow collection is in the store under its shadow name, with the target
\* fields and no record; every other collection is as it was; and no record
\* creation, delete or rename was issued.
C30_SourceUnreadable ==
  \A i \in Migrations :
    LET v == inv[i]
        last == Len(v.log)
    IN  /\ (\E n \in 1..last : v.log[n].op = "getFullList" /\ v.log[n].outcome = "failed") =>
             /\ v.pc = "Failed"
             /\ v.result = "error"
             /\ last = 2
             /\ v.log[1].op = "collections.create"
             /\ v.log[1].outcome = "ok"
             /\ v.log[2].op = "getFullList"
             /\ Exists(store, v.tempName)
             /\ store[v.tempName].fields = v.args.fields
             /\ store[v.tempName].records = <<>>
             /\ DOMAIN store = DOMAIN v.store0 \cup {v.tempName}
             /\ \A name \in DOMAIN v.store0 : store[name] = v.store0[name]
        /\ (~Exists(v.store0, v.args.collection) /\ v.pc \in Terminal) =>
             /\ v.pc = "Failed"
             /\ last <= 2
             /\ last = 2 => v.log[2].outcome = "failed"

\* A migration of a collection that does not exist has failed at the read.
C30_Witness ==
  \E i \in Migrations :
    /\ inv[i].args.collection = "ghost"
    /\ inv[i].pc = "Failed"
    /\ Len(inv[i].log) = 2
    /\ Exists(store, inv[i].tempName)
    /\ store[inv[i].tempName].records = <<>>

====
